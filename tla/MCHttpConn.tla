----------------------------- MODULE MCHttpConn -----------------------------
(***************************************************************************)
(* Small instances of HttpConn.                                            *)
(***************************************************************************)
EXTENDS HttpConn

h == [part |-> "h"]
b == [part |-> "b"]
bad == [part |-> "bad"]
End(method, alive, len) ==
    [part |-> "end", method |-> method, alive |-> alive, len |-> len, chunked |-> FALSE,
     range |-> None]
Chunked == [End("PUT", TRUE, 0) EXCEPT !.chunked = TRUE]
Ranged(first, last, len) ==
    [End("GET", FALSE, len) EXCEPT !.range = [first |-> first, last |-> last]]
size(n) == [part |-> "size", len |-> n]
part(p) == [part |-> p]

\* A file, an upload and a file on a persistent connection; a short upload that
\* a read returns together with the next request (for an empty file), then what
\* is no request; an upload without keep-alive; files that are asked for while
\* the client has yet to read a response; a header that needs a larger buffer,
\* and one that is too large; chunked uploads with a trailer or without, one
\* after the other, with another request behind, and one that is not right; a
\* trailer line that is longer than any buffer.
MCRequests == {
    << h, End("GET", TRUE, 2), h, End("PUT", TRUE, 2), b, b, End("GET", FALSE, 1) >>,
    << End("PUT", TRUE, 1), b, End("GET", TRUE, 0), bad >>,
    << End("HEAD", TRUE, 0), h, End("PUT", FALSE, 2), b, b >>,
    << End("DELETE", TRUE, 0), End("GET", TRUE, 2), End("GET", FALSE, 1) >>,
    << h, h, h, End("PUT", TRUE, 0), h, h, h, h >>,
    << Chunked, part("s"), size(2), b, b, size(0), part("crlf"), End("GET", FALSE, 1) >>,
    << Chunked, size(0), part("crlf"), Chunked, size(1), b, bad >>,
    << h, Chunked, size(1), b, size(0), part("t"), part("t"), part("tend"),
       part("crlf"), End("GET", FALSE, 1) >>,
    << Chunked, size(0), part("t"), part("t"), part("t"), part("t"), part("t"),
       part("tend"), part("crlf"), End("GET", FALSE, 1) >> }

\* Ranges in, at and beyond the end of a file: no number, numbers up to its size,
\* the largest that fits, one too large that is refused and one that is not.
MCNumerals == { <<>>, <<0>>, <<1>>, <<0, 2>>, <<1, 5>>, <<1, 6>>, <<3, 5>> }
MCRanges == { << Ranged(first, last, len) >> : first, last \in MCNumerals, len \in 0 .. 2 }
MCHeadRanges == { << [Ranged(first, last, 1) EXCEPT !.method = "HEAD"] >> :
                      first \in { <<>>, <<1>> }, last \in { <<0>>, <<1>> } }
MCWires == MCRequests \cup MCRanges \cup MCHeadRanges

\* The end of a chunked body in two pieces.
MCSplitWires == { << Chunked, size(0), part("cr"), part("lf"), End("GET", FALSE, 1) >> }
=============================================================================
