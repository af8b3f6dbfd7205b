------------------------------ MODULE HttpConn ------------------------------
(***************************************************************************)
(* One HTTP connection (http.c, http_get.c, http_put.c): how requests that *)
(* a client may pipeline and trickle are read, handed to the methods and   *)
(* answered, with the read buffer that outlives a step (http->rbuf), the   *)
(* response that the socket did not take (http->wbuf) and the file that is *)
(* being sent or received (http->forward).                                 *)
(*                                                                         *)
(* One thread at a time steps the connection, and steps it again when the  *)
(* socket is ready for what the step returned; module ClientQueue          *)
(* establishes both.  A step is several actions here, one or two per       *)
(* system call, so that the client acts in between.                        *)
(*                                                                         *)
(* What the client sends is a sequence of pieces: "h" is a piece of a      *)
(* header, "end" its last piece, which stands for what the header said,    *)
(* "b" is a piece of the body of a PUT, and "bad" is not HTTP.  In a       *)
(* chunked body "size" ends the line with the size of a chunk, or of the   *)
(* last one, which is 0, and "s" is a piece of that line; "tend" ends a    *)
(* trailer line, "t" is a piece of it; and "crlf", or "cr" and "lf", is    *)
(* the empty line at the end.  Only "lf" is a single character.            *)
(***************************************************************************)
EXTENDS Integers, Sequences, FiniteSets, HttpRange

CONSTANTS
    Wires,      \* what clients send: sequences of pieces
    WireMax,    \* the length of the longest
    RBUF_BASE,  \* MOG_RBUF_BASE_SIZE
    RBUF_GROW,  \* the increment of mog_rbuf_grow
    RBUF_MAX,   \* MOG_RBUF_MAX_SIZE
    WR_ERROR,   \* MOG_WR_ERROR
    None

Methods == {"GET", "HEAD", "PUT", "DELETE"}

ChunkParts == {"s", "size", "t", "tend", "cr"}
LastParts == {"lf", "crlf"}

\* len is the length of the body of a PUT that is not chunked, of a chunk, and
\* of the file of a GET; range is what a Range header said.
Pieces ==
    [part : {"h", "b", "bad", "s", "t", "tend", "cr", "lf", "crlf"}] \cup
    [part : {"size"}, len : Nat] \cup
    [part : {"end"}, method : Methods, alive : BOOLEAN, len : Nat, chunked : BOOLEAN,
     range : [first : Seq(0 .. 9), last : Seq(0 .. 9)] \cup {None}]

\* Where the request whose header ends at i of w ends: after a chunked body
\* (or what is wrong with it), after one of len pieces, or with its header.
BodyEnd(w, i) ==
    IF w[i].chunked
    THEN CHOOSE j \in i + 1 .. Len(w) :
             /\ w[j].part \in LastParts \cup {"bad"}
             /\ \A k \in i + 1 .. j - 1 : w[k].part \in ChunkParts \cup {"b"}
    ELSE IF w[i].method = "PUT" THEN i + w[i].len ELSE i

\* A header that says so is followed by a body, and nothing else is; a chunk
\* is as long as it says, and a chunked body has one trailer line at most.
ASSUME HttpAssumption ==
    /\ Wires \subseteq Seq(Pieces)
    /\ \A w \in Wires : \A i \in DOMAIN w :
           /\ w[i].part = "end" =>
                  /\ BodyEnd(w, i) \in i .. Len(w)
                  /\ w[i].chunked => w[i].method = "PUT"
                  /\ ~w[i].chunked =>
                         \A j \in i + 1 .. BodyEnd(w, i) : w[j].part = "b"
                  /\ Cardinality({j \in i + 1 .. BodyEnd(w, i) : w[j].part = "tend"}) <= 1
                  /\ BodyEnd(w, i) < Len(w) =>
                         w[BodyEnd(w, i) + 1].part \in {"h", "end", "bad"}
           /\ w[i].part = "size" =>
                  /\ i + w[i].len < Len(w)
                  /\ \A j \in i + 1 .. i + w[i].len : w[j].part = "b"
                  /\ w[i + w[i].len + 1].part \in ChunkParts \cup LastParts \cup {"bad"}
    /\ RBUF_BASE \in Nat \ {0} /\ RBUF_GROW \in Nat \ {0} /\ RBUF_MAX \in Nat
    /\ RBUF_BASE < RBUF_MAX
    /\ WR_ERROR # None

VARIABLES
    \* the client and the socket
    wire,        \* what this client will send
    sent,        \* how many pieces of it have arrived
    peer,        \* "open", "fin" (it sends no more) or "reset"
    room,        \* whether the socket takes a write
    rd,          \* how many pieces have been read
    out,         \* the last response on the wire, and what is missing of its body
    \* struct mog_http
    rbuf,        \* http->rbuf, by position in wire; <<>> if NULL
    rcapa,       \* its capacity, or that of the thread's own buffer
    offset,      \* http->offset
    persistent,  \* http->persistent
    wbuf,        \* http->wbuf: None, WR_ERROR, or the response it holds
    forward,     \* http->forward: None, or the file and what is left of it
    skip,        \* http->skip_rbuf_defer
    \* the step
    pc,          \* in a step, or what the last one returned
    buf,         \* the step's view of the buffer it reads into
    \* bookkeeping
    done,        \* pieces of wire that requests have used up
    end,         \* position of the last piece of the header being served
    nreq,        \* requests begun
    nfiles,      \* files open on behalf of the connection
    quit         \* graceful shutdown has begun

sockVars == <<wire, sent, peer>>
httpVars == <<rbuf, rcapa, offset, skip>>
vars == <<sockVars, room, rd, out, httpVars, persistent, wbuf, forward, pc, buf,
          done, end, nreq, nfiles, quit>>

Init ==
    /\ wire \in Wires
    /\ sent = 0 /\ peer = "open" /\ room = TRUE /\ rd = 0
    /\ out = [req |-> 0, left |-> 0]
    /\ rbuf = <<>> /\ rcapa = RBUF_BASE /\ offset = 0
    /\ persistent = FALSE /\ wbuf = None /\ forward = None /\ skip = FALSE
    /\ pc = "wait_rd" /\ buf = <<>>
    /\ done = 0 /\ end = 0 /\ nreq = 0 /\ nfiles = 0 /\ quit = FALSE

-----------------------------------------------------------------------------
(* The client, and the signal                                              *)

Send ==
    /\ peer = "open" /\ sent < Len(wire)
    /\ sent' = sent + 1
    /\ UNCHANGED <<wire, peer, room, rd, out, httpVars, persistent, wbuf, forward,
                   pc, buf, done, end, nreq, nfiles, quit>>

\* The client shuts down its side, or is gone.
Leave(how) ==
    /\ peer # "reset" /\ how # peer
    /\ peer' = how
    /\ UNCHANGED <<wire, sent, room, rd, out, httpVars, persistent, wbuf, forward,
                   pc, buf, done, end, nreq, nfiles, quit>>

\* The client reads what it has been sent.
Drain ==
    /\ ~room
    /\ room' = TRUE
    /\ UNCHANGED <<sockVars, rd, out, httpVars, persistent, wbuf, forward, pc, buf,
                   done, end, nreq, nfiles, quit>>

\* Graceful shutdown: mog_fdmap_requeue makes every client active.
Quit ==
    /\ ~quit
    /\ pc \in {"wait_rd", "wait_wr", "active"}
    /\ quit' = TRUE
    /\ pc' = "active"
    /\ UNCHANGED <<sockVars, room, rd, out, httpVars, persistent, wbuf, forward,
                   buf, done, end, nreq, nfiles>>

-----------------------------------------------------------------------------
(* What the steps share                                                    *)

\* http_close
Close ==
    /\ pc' = "closed"
    /\ rbuf' = <<>>

\* MUTANT: a client whose request is incomplete counts as idle.
WaitRdIgnoresRbuf == pc' = IF quit /\ forward' = None THEN "closed" ELSE "wait_rd"

\* MOG_NEXT_WAIT_RD, as mog_http_queue_step takes it and as mog_http_quit_step
\* does, which closes clients that are between requests.
WaitRd ==
    pc' = IF quit /\ forward' = None /\ rbuf' = <<>> THEN "closed" ELSE "wait_rd"

\* mog_trywritev, mog_trysend: the response to request n, whose header
\* promises len pieces.
Respond(n, len) ==
    LET resp == [req |-> n, left |-> len]
    IN  \/ /\ peer # "reset" /\ room
           /\ room' \in BOOLEAN
           /\ out' = resp
           /\ wbuf' = None
        \/ /\ peer # "reset" /\ ~room
           /\ wbuf' = resp
           /\ UNCHANGED <<room, out>>
        \/ /\ peer = "reset"
           /\ wbuf' = WR_ERROR
           /\ UNCHANGED <<room, out>>

\* mog_http_reset
Reset ==
    /\ offset' = 0
    /\ persistent' = FALSE
    /\ forward' = None

-----------------------------------------------------------------------------
(* http_queue_step                                                         *)

\* The queue hands the connection to a thread.
Scheduled ==
    \/ pc = "active"
    \/ pc = "wait_rd" /\ (rd < sent \/ peer # "open")
    \/ pc = "wait_wr" /\ (room \/ peer = "reset")

\* MUTANT: the file is looked at before the unwritten response.
QueueStepForward ==
    /\ Scheduled
    /\ pc' = IF forward # None THEN forward.kind
             ELSE IF wbuf # None THEN "flush"
             ELSE IF offset < Len(rbuf) THEN "parse" ELSE "read"
    /\ buf' = rbuf
    /\ rcapa' = IF rbuf = <<>> THEN RBUF_BASE ELSE rcapa
    /\ UNCHANGED <<sockVars, room, rd, out, rbuf, offset, persistent, wbuf, forward,
                   done, end, nreq, nfiles, skip, quit>>

QueueStep ==
    /\ Scheduled
    /\ pc' = IF wbuf # None THEN "flush"
             ELSE IF forward # None THEN forward.kind
             ELSE IF offset < Len(rbuf) THEN "parse" ELSE "read"
    /\ buf' = rbuf
    /\ rcapa' = IF rbuf = <<>> THEN RBUF_BASE ELSE rcapa
    /\ UNCHANGED <<sockVars, room, rd, out, rbuf, offset, persistent, wbuf, forward,
                   done, end, nreq, nfiles, skip, quit>>

\* read() returns data ...
Read(n) ==
    /\ pc = "read"
    /\ n <= sent - rd /\ n <= rcapa - offset
    /\ buf' = SubSeq(buf, 1, offset) \o [i \in 1 .. n |-> rd + i]
    /\ rd' = rd + n
    /\ pc' = "parse"
    /\ UNCHANGED <<sockVars, room, out, httpVars, persistent, wbuf, forward, done,
                   end, nreq, nfiles, quit>>

\* ... nothing (0, also if there was no room to read into) or an error ...
ReadEnd ==
    /\ pc = "read"
    /\ peer = "reset" \/ (peer = "fin" /\ rd = sent) \/ offset = rcapa
    /\ Close
    /\ UNCHANGED <<sockVars, room, rd, out, rcapa, offset, persistent, wbuf, forward,
                   buf, done, end, nreq, nfiles, skip, quit>>

\* MUTANT: the thread's buffer is not detached.
ReadAgainLoses ==
    /\ pc = "read"
    /\ rd = sent /\ peer = "open" /\ offset < rcapa
    /\ UNCHANGED <<rbuf, forward>>
    /\ WaitRd
    /\ UNCHANGED <<sockVars, room, rd, out, rcapa, offset, persistent, wbuf, buf,
                   done, end, nreq, nfiles, skip, quit>>

\* ... or EAGAIN: what has been read of a header is kept.
ReadAgain ==
    /\ pc = "read"
    /\ rd = sent /\ peer = "open" /\ offset < rcapa
    /\ rbuf' = buf
    /\ forward' = forward
    /\ WaitRd
    /\ UNCHANGED <<sockVars, room, rd, out, rcapa, offset, persistent, wbuf, buf,
                   done, end, nreq, nfiles, skip, quit>>

\* Where the header in buf ends, or stops being one.
Stops == {i \in offset + 1 .. Len(buf) : wire[buf[i]].part # "h"}

\* MUTANT: the buffer grows one piece too late.
ParseContinueLate ==
    /\ pc = "parse"
    /\ Stops = {}
    /\ offset' = Len(buf)
    /\ Len(buf) <= rcapa
    /\ pc' = "read"
    /\ UNCHANGED <<sockVars, room, rd, out, rbuf, rcapa, persistent, wbuf, forward,
                   buf, done, end, nreq, nfiles, skip, quit>>

\* mog_http_parse returns MOG_PARSER_CONTINUE: the buffer may have to grow,
\* up to a limit.
ParseContinue ==
    /\ pc = "parse"
    /\ Stops = {}
    /\ offset' = Len(buf)
    /\ \/ /\ Len(buf) < rcapa
          /\ pc' = "read"
          /\ UNCHANGED <<rbuf, rcapa>>
       \/ /\ Len(buf) >= rcapa /\ Len(buf) # RBUF_MAX
          /\ rcapa' = IF Len(buf) + RBUF_GROW > RBUF_MAX THEN RBUF_MAX
                                                         ELSE Len(buf) + RBUF_GROW
          /\ rbuf' = buf
          /\ pc' = "read"
       \/ /\ Len(buf) >= rcapa /\ Len(buf) = RBUF_MAX
          /\ rbuf' = <<>>
          /\ pc' = "err"
          /\ UNCHANGED rcapa
    /\ UNCHANGED <<sockVars, room, rd, out, persistent, wbuf, forward, buf, done,
                   end, nreq, nfiles, skip, quit>>

\* The header parser fails at piece p: it is not HTTP, or length_incr refuses a
\* number of the Range header (ERANGE).
Malformed(p) ==
    p.part = "end" =>
        p.range # None /\ (BoundRefused(p.range.first) \/ BoundRefused(p.range.last))

\* MOG_PARSER_ERROR or MOG_PARSER_DONE, at the first stop.
ParseStop(i) ==
    /\ pc = "parse"
    /\ i \in Stops /\ \A j \in Stops : i <= j
    /\ \/ /\ Malformed(wire[buf[i]])
          /\ offset' = i - 1
          /\ pc' = "err"
          /\ UNCHANGED <<persistent, end>>
       \/ /\ ~Malformed(wire[buf[i]])
          /\ offset' = i
          /\ persistent' = wire[buf[i]].alive
          /\ end' = buf[i]
          /\ pc' = "process"
    /\ UNCHANGED <<sockVars, room, rd, out, rbuf, rcapa, wbuf, forward, buf, done,
                   nreq, nfiles, skip, quit>>

\* err507or400: the connection is closed after the response.
ErrorResponse ==
    /\ pc = "err"
    /\ nreq' = nreq + 1
    /\ Respond(nreq + 1, 0)
    /\ persistent' = FALSE
    /\ Close
    /\ UNCHANGED <<sockVars, rd, rcapa, offset, forward, buf, done, end, nfiles,
                   skip, quit>>

-----------------------------------------------------------------------------
(* http_process_client                                                     *)

request == wire[end]

\* http_get_resp_hdr: what is sent of the file.
Extent ==
    IF request.range = None
    THEN [status |-> 200, offset |-> 0, count |-> request.len]
    ELSE RangeResp(RangeBound(request.range.first), RangeBound(request.range.last),
                   request.len)

\* assert(count > 0 && "bad count for 206 response")
CountAsserted == Extent.status = 206 => Extent.count > 0

\* The assertion fails, and with it the program ends.
AssertFails ==
    /\ pc = "process" /\ request.method \in {"GET", "HEAD"} /\ ~CountAsserted
    /\ pc' = "aborted"
    /\ UNCHANGED <<sockVars, room, rd, out, httpVars, persistent, wbuf, forward, buf,
                   done, end, nreq, nfiles, quit>>

\* mog_http_get_open for a GET: the file is open, the header sent or not.
GetOpen ==
    /\ pc = "process" /\ request.method = "GET" /\ Extent.status # 416
    /\ CountAsserted
    /\ nreq' = nreq + 1
    /\ forward' = [kind |-> "get", foff |-> Extent.offset, left |-> Extent.count]
    /\ nfiles' = nfiles + 1
    /\ Respond(nreq + 1, Extent.count)
    /\ pc' = "processed"
    /\ UNCHANGED <<sockVars, rd, httpVars, persistent, buf, done, end, quit>>

\* A response without a body: to HEAD and DELETE, and to a GET that fails or
\* has a bad range (what it opened is closed again).
ShortResponse ==
    /\ pc = "process" /\ request.method # "PUT"
    /\ nreq' = nreq + 1
    /\ Respond(nreq + 1, 0)
    /\ pc' = "processed"
    /\ UNCHANGED <<sockVars, rd, httpVars, persistent, forward, buf, done, end,
                   nfiles, quit>>

\* MUTANT: the connection stays open, the body unread.
PutRefusedAlive ==
    /\ pc = "process" /\ request.method = "PUT"
    /\ nreq' = nreq + 1
    /\ Respond(nreq + 1, 0)
    /\ pc' = "processed"
    /\ UNCHANGED <<sockVars, rd, httpVars, persistent, forward, buf, done, end,
                   nfiles, quit>>

\* mog_http_put does not get as far as having a file to write to.
PutRefused ==
    /\ pc = "process" /\ request.method = "PUT"
    /\ nreq' = nreq + 1
    /\ Respond(nreq + 1, 0)
    /\ persistent' = FALSE
    /\ pc' = "processed"
    /\ UNCHANGED <<sockVars, rd, httpVars, forward, buf, done, end, nfiles, quit>>

\* MUTANT: all that follows the header is taken for the body.
BodyReadAll == Len(buf) - offset

\* How much of the body came with the header.
BodyRead == LET n == Len(buf) - offset IN IF request.len < n THEN request.len ELSE n

\* It does: identity_body_after_header writes that to the file ...
PutOpen ==
    /\ pc = "process" /\ request.method = "PUT" /\ ~request.chunked
    /\ nreq' = nreq + 1
    /\ forward' = [kind |-> "put", left |-> request.len - BodyRead,
                   body |-> SubSeq(buf, offset + 1, offset + BodyRead)]
    /\ nfiles' = nfiles + 1
    /\ offset' = offset + BodyRead
    /\ pc' = "processed"
    /\ UNCHANGED <<sockVars, room, rd, out, rbuf, rcapa, persistent, wbuf, buf, done,
                   end, skip, quit>>

\* ... or fails to, and closes and unlinks the file.
PutOpenError ==
    /\ pc = "process" /\ request.method = "PUT" /\ ~request.chunked /\ BodyRead > 0
    /\ nreq' = nreq + 1
    /\ offset' = offset + BodyRead
    /\ Respond(nreq + 1, 0)
    /\ persistent' = FALSE
    /\ pc' = "processed"
    /\ UNCHANGED <<sockVars, rd, rbuf, rcapa, forward, buf, done, end, nfiles, skip, quit>>

-----------------------------------------------------------------------------
(* mog_chunk_parse, stash_advance_rbuf and chunked_body_after_header       *)

\* mog_chunk_init.  left is http->content_len, line is http->line_end + 1, or
\* 0 if that is 0.
ChunkInit(body) ==
    [kind |-> "chunked", state |-> "size", left |-> 0, line |-> 0, body |-> body]

\* chunk_data of the last chunk, at piece i of the buffer: the line that ends
\* before i is only known if it is in the same buffer.
LastChunk(f, i) ==
    IF f.state = "data" /\ f.left = 0
    THEN [f EXCEPT !.state = "trailer", !.line = IF i > 1 THEN i - 1 ELSE @]
    ELSE f

\* The parser takes piece p, which is number i of the buffer; a write to the
\* file may fail.
ChunkPiece(g, i, p, fail) ==
    LET f == LastChunk(g, i)
        part == wire[p].part
    IN  CASE f.state = "size" /\ part = "s" -> f
          [] f.state = "size" /\ part = "size" ->
                 [f EXCEPT !.state = "data", !.left = wire[p].len]
          [] f.state = "data" /\ i # fail ->
                 [f EXCEPT !.left = @ - 1, !.body = Append(@, p),
                           !.state = IF f.left = 1 THEN "size" ELSE "data"]
          [] f.state = "trailer" /\ part \in {"t", "cr"} -> f
          [] f.state = "trailer" /\ part = "tend" -> [f EXCEPT !.line = i]
          [] f.state = "trailer" /\ part \in LastParts ->
                 [f EXCEPT !.state = "done", !.line = IF i = 1 /\ part = "lf" THEN 0 ELSE i]
          [] OTHER -> [f EXCEPT !.state = "error"]

\* mog_chunk_parse: from off, to the end of buffer b, of the body, or of what
\* can be parsed; returns http->offset, too.
RECURSIVE ChunkParse(_, _, _, _)
ChunkParse(f, b, off, fail) ==
    IF f.state \in {"done", "error"} \/ off = Len(b)
    THEN [file |-> f, off |-> off]
    ELSE LET g == ChunkPiece(f, off + 1, b[off + 1], fail)
         IN  ChunkParse(g, b, IF g.state = "error" THEN off ELSE off + 1, fail)

\* stash_advance_rbuf: what follows the last line end in b is kept.  (A trailer
\* line is one that the parser ignores; tmp_tip, which moves along with offset and
\* is where a Content-MD5 value starts in the buffer, is not modelled.)
Stash(f, b, off) ==
    \/ /\ f.line = 0 \/ Len(b) <= f.line
       /\ rbuf' = <<>>
       /\ offset' = 0
       /\ done' = done + off
       /\ forward' = f
       /\ UNCHANGED rcapa
    \/ /\ f.line > 0 /\ Len(b) > f.line
       /\ rbuf' = SubSeq(b, f.line + 1, Len(b))
       /\ rcapa' = IF rbuf = <<>> THEN RBUF_BASE ELSE rcapa
       /\ offset' = off - f.line
       /\ done' = done + f.line
       /\ forward' = [f EXCEPT !.line = 0]

\* mog_http_put: the part of a chunked body that came with the header ...
ChunkOpen ==
    /\ pc = "process" /\ request.method = "PUT" /\ request.chunked
    /\ nreq' = nreq + 1
    /\ nfiles' = nfiles + 1
    /\ LET r == ChunkParse(ChunkInit(<<>>), buf, offset, 0)
       IN  \/ /\ r.file.state \in {"size", "data"}
              /\ forward' = r.file
              /\ offset' = r.off
              /\ pc' = "processed"
              /\ UNCHANGED <<rbuf, rcapa, skip, done>>
           \/ /\ r.file.state \in {"trailer", "done"}
              /\ Stash(r.file, buf, r.off)
              /\ skip' = TRUE
              /\ pc' = IF r.file.state = "done" THEN "commit" ELSE "processed"
    /\ UNCHANGED <<sockVars, room, rd, out, persistent, wbuf, buf, end, quit>>

\* ... which may be wrong, or not be written.
ChunkOpenError(fail) ==
    /\ pc = "process" /\ request.method = "PUT" /\ request.chunked
    /\ LET r == ChunkParse(ChunkInit(<<>>), buf, offset, fail)
       IN  r.file.state = "error" /\ offset' = r.off
    /\ nreq' = nreq + 1
    /\ Respond(nreq + 1, 0)
    /\ persistent' = FALSE
    /\ pc' = "processed"
    /\ UNCHANGED <<sockVars, rd, rbuf, rcapa, skip, forward, buf, done, end, nfiles, quit>>

\* put_commit_resp (before stash_advance_rbuf, which it does not affect)
ChunkOpenCommit(keep) ==
    /\ pc = "commit"
    /\ forward' = None /\ nfiles' = nfiles - 1
    /\ Respond(nreq, 0)
    /\ persistent' = (persistent /\ keep)
    /\ pc' = "processed"
    /\ UNCHANGED <<sockVars, rd, httpVars, buf, done, end, nreq, quit>>

-----------------------------------------------------------------------------
(* The rest of http_queue_step                                             *)

\* http_defer_rbuf: pipelined data is kept, in the buffer it is in if that is
\* the connection's own; unless stash_advance_rbuf has done so.
DeferRbuf ==
    /\ skip' = FALSE
    /\ \/ /\ skip
          /\ UNCHANGED <<rbuf, rcapa, offset, done>>
       \/ /\ ~skip
          /\ rbuf' = SubSeq(buf, offset + 1, Len(buf))
          /\ rcapa' = IF rbuf = <<>> THEN Len(buf) - offset ELSE rcapa
          /\ offset' = 0
          /\ done' = done + offset

\* MUTANT: the rest of the pipeline is left until the socket is readable.
ProcessedWaits ==
    /\ pc = "processed"
    /\ \/ /\ wbuf = WR_ERROR \/ (wbuf = None /\ forward = None /\ ~persistent)
          /\ Close
          /\ UNCHANGED <<rcapa, offset, skip, persistent, forward, done>>
       \/ /\ wbuf \notin {None, WR_ERROR}
          /\ DeferRbuf
          /\ pc' = "wait_wr"
          /\ UNCHANGED <<persistent, forward>>
       \/ /\ wbuf = None /\ forward # None
          /\ DeferRbuf
          /\ pc' = forward.kind
          /\ UNCHANGED <<persistent, forward>>
       \/ /\ wbuf = None /\ forward = None /\ persistent
          /\ DeferRbuf
          /\ Reset
          /\ WaitRd
    /\ UNCHANGED <<sockVars, room, rd, out, wbuf, buf, end, nreq, nfiles, quit>>

\* The rest of http_queue_step after http_process_client.
Processed ==
    /\ pc = "processed"
    /\ \/ /\ wbuf = WR_ERROR \/ (wbuf = None /\ forward = None /\ ~persistent)
          /\ Close
          /\ UNCHANGED <<rcapa, offset, skip, persistent, forward, done>>
       \/ /\ wbuf \notin {None, WR_ERROR}
          /\ DeferRbuf
          /\ pc' = "wait_wr"
          /\ UNCHANGED <<persistent, forward>>
       \/ /\ wbuf = None /\ forward # None
          /\ DeferRbuf
          /\ pc' = forward.kind
          /\ UNCHANGED <<persistent, forward>>
       \/ /\ wbuf = None /\ forward = None /\ persistent
          /\ DeferRbuf
          /\ Reset
          /\ pc' = "active"
    /\ UNCHANGED <<sockVars, room, rd, out, wbuf, buf, end, nreq, nfiles, quit>>

-----------------------------------------------------------------------------
(* http_wbuf_in_progress                                                   *)

\* MUTANT: the connection is reset though the body is still to be sent.
FlushDoneResets ==
    /\ pc = "flush" /\ peer # "reset" /\ room
    /\ room' \in BOOLEAN
    /\ out' = wbuf
    /\ wbuf' = None
    /\ \/ /\ ~persistent
          /\ Close
          /\ UNCHANGED <<offset, persistent, forward>>
       \/ /\ persistent
          /\ Reset
          /\ pc' = "active"
          /\ UNCHANGED rbuf
    /\ UNCHANGED <<sockVars, rd, rcapa, buf, done, end, nreq, nfiles, skip, quit>>

\* mog_tryflush writes the response ...
FlushDone ==
    /\ pc = "flush" /\ peer # "reset" /\ room
    /\ room' \in BOOLEAN
    /\ out' = wbuf
    /\ wbuf' = None
    /\ \/ /\ ~persistent
          /\ Close
          /\ UNCHANGED <<offset, persistent, forward>>
       \/ /\ persistent /\ forward # None
          /\ pc' = "active"
          /\ UNCHANGED <<rbuf, offset, persistent, forward>>
       \/ /\ persistent /\ forward = None
          /\ Reset
          /\ pc' = "active"
          /\ UNCHANGED rbuf
    /\ UNCHANGED <<sockVars, rd, rcapa, buf, done, end, nreq, nfiles, skip, quit>>

\* ... or frees it after an error ...
FlushError ==
    /\ pc = "flush" /\ peer = "reset"
    /\ wbuf' = None
    /\ Close
    /\ UNCHANGED <<sockVars, room, rd, out, rcapa, offset, persistent, forward, buf,
                   done, end, nreq, nfiles, skip, quit>>

\* ... or has to wait.
FlushBusy ==
    /\ pc = "flush" /\ peer # "reset" /\ ~room
    /\ pc' = "wait_wr"
    /\ UNCHANGED <<sockVars, room, rd, out, httpVars, persistent, wbuf, forward, buf,
                   done, end, nreq, nfiles, quit>>

-----------------------------------------------------------------------------
(* mog_http_get_in_progress                                                *)

\* mog_file_close and what follows it.
GetDone(alive) ==
    /\ nfiles' = nfiles - 1
    /\ IF alive THEN Reset /\ pc' = "active" /\ UNCHANGED rbuf
                ELSE persistent' = FALSE /\ Close /\ UNCHANGED <<offset, forward>>

GetEmpty ==
    /\ pc = "get" /\ forward.left = 0
    /\ GetDone(persistent)
    /\ UNCHANGED <<sockVars, room, rd, out, rcapa, wbuf, buf, done, end, nreq, skip, quit>>

\* sendfile() sends n pieces, all or not ...
SendFile(n) ==
    /\ pc = "get" /\ peer # "reset" /\ room
    /\ n <= forward.left
    /\ room' \in BOOLEAN
    /\ out' = [out EXCEPT !.left = @ - n]
    /\ IF n = forward.left
       THEN GetDone(persistent)
       ELSE /\ forward' = [forward EXCEPT !.foff = @ + n, !.left = @ - n]
            /\ pc' = "active"
            /\ UNCHANGED <<rbuf, offset, persistent, nfiles>>
    /\ UNCHANGED <<sockVars, rd, rcapa, wbuf, buf, done, end, nreq, skip, quit>>

\* ... fails, or finds the file shorter than it was ...
SendFileError ==
    /\ pc = "get" /\ forward.left > 0
    /\ GetDone(FALSE)
    /\ UNCHANGED <<sockVars, room, rd, out, rcapa, wbuf, buf, done, end, nreq, skip, quit>>

\* ... or has to wait.
SendFileBusy ==
    /\ pc = "get" /\ forward.left > 0 /\ peer # "reset" /\ ~room
    /\ pc' = "wait_wr"
    /\ UNCHANGED <<sockVars, room, rd, out, httpVars, persistent, wbuf, forward, buf,
                   done, end, nreq, nfiles, quit>>

-----------------------------------------------------------------------------
(* identity_put_in_progress                                                *)

\* read() and mog_http_write_full, until nothing is left to read ...
PutRead(n) ==
    /\ pc = "put"
    /\ n <= sent - rd /\ n <= forward.left
    /\ rd' = rd + n
    /\ done' = done + n
    /\ forward' = [forward EXCEPT !.left = @ - n,
                                  !.body = @ \o [i \in 1 .. n |-> rd + i]]
    /\ UNCHANGED <<sockVars, room, out, httpVars, persistent, wbuf, pc, buf, end,
                   nreq, nfiles, quit>>

\* file_close_null
FileClose == forward' = None /\ nfiles' = nfiles - 1

\* ... or the write fails (write_err) ...
PutWriteError(n) ==
    /\ pc = "put"
    /\ n <= sent - rd /\ n <= forward.left
    /\ rd' = rd + n
    /\ done' = done + n
    /\ Respond(nreq, 0)
    /\ persistent' = FALSE
    /\ FileClose
    /\ Close
    /\ UNCHANGED <<sockVars, rcapa, offset, buf, end, nreq, skip, quit>>

\* ... or the client is gone: no response ...
PutReadError ==
    /\ pc = "put" /\ forward.left > 0
    /\ peer = "reset" \/ (peer = "fin" /\ rd = sent)
    /\ FileClose
    /\ Close
    /\ UNCHANGED <<sockVars, room, rd, out, rcapa, offset, persistent, wbuf, buf,
                   done, end, nreq, skip, quit>>

\* ... or there is nothing to read now.
PutAgain ==
    /\ pc = "put" /\ forward.left > 0 /\ peer = "open" /\ rd = sent
    /\ UNCHANGED <<rbuf, forward>>
    /\ WaitRd
    /\ UNCHANGED <<sockVars, room, rd, out, rcapa, offset, persistent, wbuf, buf,
                   done, end, nreq, nfiles, skip, quit>>

\* http_put_commit: renamed into place, or not for want of the right MD5 or
\* permissions; the last is answered with "Connection: close".
PutCommit(keep) ==
    /\ \/ pc = "put" /\ forward.left = 0
       \/ pc = "chunked" /\ forward.state = "done"
    /\ FileClose
    /\ Respond(nreq, 0)
    /\ \/ /\ wbuf' \notin {None, WR_ERROR}
          /\ pc' = "wait_wr"
          /\ persistent' = (persistent /\ keep)
          /\ UNCHANGED <<rbuf, offset>>
       \/ /\ wbuf' = WR_ERROR \/ (wbuf' = None /\ ~(persistent /\ keep))
          /\ Close
          /\ persistent' = (persistent /\ keep)
          /\ UNCHANGED offset
       \/ /\ wbuf' = None /\ persistent /\ keep
          /\ Reset
          /\ pc' = "active"
          /\ UNCHANGED rbuf
    /\ UNCHANGED <<sockVars, rd, rcapa, buf, done, end, nreq, skip, quit>>

-----------------------------------------------------------------------------
(* chunked_put_in_progress                                                 *)

InData == forward.state = "data" /\ forward.left > 0

\* A chunk's data go to the file without the read buffer ...
ChunkData(n) ==
    /\ pc = "chunked" /\ InData
    /\ n <= sent - rd /\ n <= forward.left
    /\ rd' = rd + n
    /\ done' = done + n
    /\ LET body == forward.body \o [i \in 1 .. n |-> rd + i]
       IN  forward' = IF n = forward.left THEN ChunkInit(body)
                      ELSE [forward EXCEPT !.left = @ - n, !.body = body]
    /\ UNCHANGED <<sockVars, room, out, httpVars, persistent, wbuf, pc, buf, end,
                   nreq, nfiles, quit>>

ChunkDataError(n) ==
    /\ pc = "chunked" /\ InData
    /\ n <= sent - rd /\ n <= forward.left
    /\ rd' = rd + n
    /\ done' = done + n
    /\ Respond(nreq, 0)
    /\ persistent' = FALSE
    /\ FileClose
    /\ Close
    /\ UNCHANGED <<sockVars, rcapa, offset, skip, buf, end, nreq, quit>>

\* The room in the buffer that sizes and trailers are read into.
ChunkRoom == IF rbuf = <<>> THEN RBUF_BASE ELSE rcapa - Len(rbuf)

\* ... what read() appends to that buffer is parsed ...
ChunkRead(n) ==
    /\ pc = "chunked" /\ forward.state # "done" /\ ~InData
    /\ n <= sent - rd /\ n <= ChunkRoom
    /\ rd' = rd + n
    /\ LET b == rbuf \o [i \in 1 .. n |-> rd + i]
           r == ChunkParse(forward, b, offset, 0)
       IN  \/ /\ r.file.state \in {"size", "data"}
              /\ forward' = r.file
              /\ rbuf' = <<>>
              /\ offset' = 0
              /\ done' = done + Len(b)
              /\ UNCHANGED rcapa
           \/ /\ r.file.state \in {"trailer", "done"}
              /\ Stash(r.file, b, r.off)
    /\ UNCHANGED <<sockVars, room, out, skip, persistent, wbuf, pc, buf, end, nreq,
                   nfiles, quit>>

\* ... and may be wrong, or not be written ...
ChunkReadError(n, fail) ==
    /\ pc = "chunked" /\ forward.state # "done" /\ ~InData
    /\ n <= sent - rd /\ n <= ChunkRoom
    /\ rd' = rd + n
    /\ LET b == rbuf \o [i \in 1 .. n |-> rd + i]
       IN  ChunkParse(forward, b, offset, fail).file.state = "error"
    /\ Respond(nreq, 0)
    /\ persistent' = FALSE
    /\ FileClose
    /\ Close
    /\ UNCHANGED <<sockVars, rcapa, offset, skip, buf, done, end, nreq, quit>>

\* ... or the client is gone, or there is no room to read into ...
ChunkReadEnd ==
    /\ pc = "chunked" /\ forward.state # "done"
    /\ peer = "reset" \/ (peer = "fin" /\ rd = sent) \/ (~InData /\ ChunkRoom = 0)
    /\ FileClose
    /\ Close
    /\ UNCHANGED <<sockVars, room, rd, out, rcapa, offset, skip, persistent, wbuf, buf,
                   done, end, nreq, quit>>

\* ... or there is nothing to read now.
ChunkAgain ==
    /\ pc = "chunked" /\ forward.state # "done"
    /\ rd = sent /\ peer = "open" /\ (InData \/ ChunkRoom > 0)
    /\ UNCHANGED <<rbuf, forward>>
    /\ WaitRd
    /\ UNCHANGED <<sockVars, room, rd, out, rcapa, offset, skip, persistent, wbuf, buf,
                   done, end, nreq, nfiles, quit>>

-----------------------------------------------------------------------------

Client == Send \/ Leave("fin") \/ Leave("reset")

\* What the connection's thread does.
Step ==
    \/ QueueStep
    \/ ReadEnd \/ ReadAgain \/ ParseContinue \/ ErrorResponse
    \/ AssertFails \/ GetOpen \/ ShortResponse \/ PutRefused \/ PutOpen \/ PutOpenError
    \/ Processed
    \/ FlushDone \/ FlushError \/ FlushBusy
    \/ GetEmpty \/ SendFileError \/ SendFileBusy
    \/ PutReadError \/ PutAgain
    \/ \E n \in 1 .. RBUF_MAX : Read(n) \/ ParseStop(n)
    \/ \E n \in 1 .. Len(wire) : SendFile(n) \/ PutRead(n) \/ PutWriteError(n)
    \/ \E keep \in BOOLEAN : PutCommit(keep) \/ ChunkOpenCommit(keep)
    \/ ChunkOpen \/ ChunkReadEnd \/ ChunkAgain
    \/ \E fail \in 0 .. RBUF_MAX : ChunkOpenError(fail)
    \/ \E n \in 1 .. Len(wire) : ChunkData(n) \/ ChunkDataError(n) \/ ChunkRead(n)
    \/ \E n \in 1 .. RBUF_MAX, fail \in 0 .. RBUF_MAX : ChunkReadError(n, fail)

\* The connection is closed, or the program has ended.
Over == {"closed", "aborted"}

Closed == pc \in Over /\ UNCHANGED vars

Next == Client \/ Drain \/ Quit \/ Step \/ Closed

Spec == Init /\ [][Next]_vars

-----------------------------------------------------------------------------
(* Safety                                                                  *)

Waiting == {"wait_rd", "wait_wr", "active"}
Reading == {"read", "parse", "process", "commit", "processed", "err"}

\* The buffer with what has been read ahead.
Buffered == IF pc \in Reading /\ ~skip THEN buf ELSE rbuf

\* No piece that has been read is lost, repeated or taken out of order,
\* whichever thread's buffer it was read into: the buffer always holds exactly
\* what has been read and no request has used.  In particular it holds the
\* whole of the header being parsed, into which path_tip points.
InSync ==
    pc \notin Over =>
        /\ Len(Buffered) = rd - done
        /\ \A i \in DOMAIN Buffered : Buffered[i] = done + i

\* Requests do not run into each other: the header parser starts where a
\* request starts, after whatever body the last one had.
Framed ==
    pc \in {"read", "parse"} /\ done > 0 =>
        /\ wire[done].part \in {"b", "end"} \cup LastParts
        /\ done < Len(wire) => wire[done + 1].part \in {"h", "end", "bad"}

\* The body that a PUT writes is its own: every piece that came with the
\* header or after it, once and in order, and nothing of the next request or
\* of what is between chunks; and it is complete when it is committed.
BodyExact ==
    forward # None /\ forward.kind \in {"put", "chunked"} /\ pc # "closed" =>
        LET Own == {j \in end + 1 .. BodyEnd(wire, end) : wire[j].part = "b"}
            n == Len(forward.body)
        IN  /\ \A i \in 1 .. n :
                   /\ forward.body[i] \in Own
                   /\ Cardinality({j \in Own : j <= forward.body[i]}) = i
            /\ IF forward.kind = "put" THEN n + forward.left = Cardinality(Own)
               ELSE forward.state \in {"trailer", "done"} => n = Cardinality(Own)

\* A Range header is answered with the bytes its digits name, whatever of the
\* file they cover, and with 416 only where they name none; and however sendfile()
\* portions it, what is still to be sent is what is left of those bytes.  Two
\* limits: this is so for numbers that fit an off_t (length_incr refuses only some
\* of the others and takes the rest for smaller ones), and "bytes=-0", which names
\* no byte, is answered by no 416 but ends the program (RangeAsserted), as no
\* other range does: any other 206 has a body and stays inside the file ("bad
\* count for 206 response", "bad offset for 206 response").
RangeRight ==
    pc # "closed" /\ end > 0 /\ request.method \in {"GET", "HEAD"}
    /\ request.range # None =>
        LET first == request.range.first
            last == request.range.last
        IN  /\ pc = "process" =>
                   ZeroSuffix(first, last) \/ Right(first, last, request.len)
            /\ pc = "aborted" => ZeroSuffix(first, last)
            /\ forward # None /\ Fits(first) /\ Fits(last) =>
                   {i \in Wanted(first, last, request.len) : i >= forward.foff} =
                       forward.foff .. forward.foff + forward.left - 1

\* read() is never called without room to read into (it would return 0, as it
\* does at the end of the stream, and the connection would be closed without a
\* response); "offset is too big", "bad rsize stashed".  In a chunked body that is
\* more than the code counts on: chunked_put_in_progress says of the room after
\* what is stashed that "buf_len == 0 may happen here if client sends us very
\* bogus data... just 400 it below", but what stash_advance_rbuf keeps follows a
\* line end, so it never fills the buffer, and of a trailer line longer than the
\* buffer it keeps nothing.
ReadRoom ==
    /\ pc = "read" => offset < rcapa /\ offset = Len(buf)
    /\ pc = "chunked" /\ forward.state # "done" /\ ~InData =>
           ChunkRoom > 0 /\ offset = Len(rbuf)
    /\ pc \in Waiting => Len(rbuf) <= RBUF_MAX /\ offset <= Len(rbuf)
    /\ pc \in Waiting /\ rbuf # <<>> =>
           Len(rbuf) <= rcapa /\ (forward = None => offset < rcapa)

\* Between steps the connection has a file open exactly if http->forward is
\* set: none is forgotten, none closed twice.
FileHeld == pc \in Waiting => nfiles = (IF forward = None THEN 0 ELSE 1)

\* Responses do not interleave: a response is to the request after the last
\* one answered and begins when the body of that one is complete; body pieces
\* belong to the response on the wire.
InOrder ==
    [][out' # out => \/ out.left = 0 /\ out'.req = out.req + 1
                     \/ out'.req = out.req /\ out'.left < out.left]_vars

\* Graceful shutdown "will not terminate active requests" (README): of the
\* connections that wait for the client it closes only those where the last
\* response is complete and nothing of a next request has been read.
QuitIdle ==
    [][pc' = "closed" /\ pc \in {"read", "put", "chunked"} /\ peer = "open" /\ wbuf' = None
           => \/ pc = "read" /\ rd = done /\ out = [req |-> nreq, left |-> 0]
              \/ pc # "read" /\ out' = [req |-> nreq, left |-> 0]]_vars

\* "bad count for 206 response" (http_get_resp_hdr): the range check before the
\* assertion lets no range through that selects nothing.
RangeAsserted == pc # "aborted"

\* "would leak http->wbuf on close" (http_close)
WbufFreed == pc = "closed" => wbuf \in {None, WR_ERROR}

\* "pipelined HTTP request after trailers!" (chunked_put_in_progress): what
\* was read together with the end of a chunked body and is not part of it is
\* kept for the next step.
Pipelined ==
    forward # None /\ forward.kind = "chunked" /\ forward.state = "done" =>
        Len(rbuf) = rd - done

\* A file is sent to its end even if the client did not ask for a persistent
\* connection (test_get_huge), unless an error intervenes.
SentWhole ==
    [][pc = "flush" /\ pc' = "closed" /\ peer # "reset" => out'.left = 0]_vars

-----------------------------------------------------------------------------
(* Liveness: the queue serves the connection (ClientQueue), the client     *)
(* reads what it is sent.                                                  *)

FairSpec == Spec /\ WF_vars(Step) /\ WF_vars(Drain)

\* Where the headers of the wire end.
Ends == {i \in DOMAIN wire : wire[i].part = "end"}

Number(i) == Cardinality({j \in Ends : j <= i})

Answered(n) == out.req > n \/ out = [req |-> n, left |-> 0]

\* A request that has arrived is answered, or the connection closed (or the
\* program ended, see RangeRight); it never waits in the read buffer for the socket
\* to become readable.
Responds ==
    \A i \in 1 .. WireMax :
        i \in Ends /\ sent >= BodyEnd(wire, i) ~> Answered(Number(i)) \/ pc \in Over
=============================================================================
