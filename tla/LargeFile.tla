------------------------------ MODULE LargeFile ------------------------------
(***************************************************************************)
(* The body of a large file on its connection (rust/src/server.rs          *)
(* send_large_file, send_chunk_adaptive; rust/src/client.rs                *)
(* recv_large_body), one file per stream, the streams sharing the adaptive *)
(* controller, while the files grow or shrink.                             *)
(*                                                                         *)
(* Lengths are in blocks.  A connection is a queue of lines and payload    *)
(* blocks: a reader that expects a line takes a whole line, one that       *)
(* expects payload takes whatever comes, as read_exact does.  The line     *)
(* "next" is whatever the server says after the file.                      *)
(***************************************************************************)
EXTENDS AdaptiveLevel, Sequences

CONSTANT MaxLength  \* bound: blocks of a file

ASSUME LargeAssumption == MaxLength \in Nat

VARIABLES
    length,   \* the file's length now
    pos,      \* blocks read from it
    sender,   \* "open" | "raw" | "blocks" | "report" | "sent"
    remain,   \* raw: announced and not yet sent
    conn,     \* under way to the client
    reader,   \* "header" | "raw" | "blocks" | "done" | "idle"
    left,     \* raw: announced and not yet received
    got,      \* blocks written to the receiver's file
    misread,  \* history: a line was taken for payload
    cut       \* history: the file was shorter than a raw header announced

serverSide == <<pos, sender, remain>>
readerSide == <<reader, left, got, misread>>
lvars == <<avars, length, serverSide, conn, readerSide, cut>>

Tok(type, n) == [type |-> type, n |-> n]
Token == [type : {"R", "Z", "Zc", "E", "payload", "next"}, n : 0..MaxLength]
Put(s, toks) == conn' = [conn EXCEPT ![s] = @ \o toks]

LargeInit ==
    /\ AdaptiveInit
    /\ length \in [Stream -> 0..MaxLength]
    /\ pos = [s \in Stream |-> 0]
    /\ sender = [s \in Stream |-> "open"]
    /\ remain = [s \in Stream |-> 0]
    /\ conn = [s \in Stream |-> <<>>]
    /\ reader = [s \in Stream |-> "header"]
    /\ left = [s \in Stream |-> 0]
    /\ got = [s \in Stream |-> 0]
    /\ misread = [s \in Stream |-> FALSE]
    /\ cut = [s \in Stream |-> FALSE]

------------------------------------------------------------------------------
(* Whoever writes to the file. *)

Resize(s) ==
    /\ sender[s] # "sent"
    /\ \E n \in 0..MaxLength :
           /\ n # length[s]
           /\ length' = [length EXCEPT ![s] = n]
    /\ UNCHANGED <<avars, serverSide, conn, readerSide, cut>>

------------------------------------------------------------------------------
(* The server. *)

AtSender(s, from, to) ==
    /\ sender[s] = from
    /\ sender' = [sender EXCEPT ![s] = to]

\* Compression off, the file too small or of a kind that does not compress: the
\* length at this moment is announced.
AnnounceRaw(s) ==
    /\ AtSender(s, "open", "raw")
    /\ remain' = [remain EXCEPT ![s] = length[s]]
    /\ Put(s, <<Tok("R", length[s])>>)
    /\ UNCHANGED <<avars, length, pos, readerSide, cut>>

AnnounceBlocks(s) ==
    /\ AtSender(s, "open", "blocks")
    /\ length[s] > 0
    /\ Put(s, <<Tok("Z", 0)>>)
    /\ UNCHANGED <<avars, length, pos, remain, readerSide, cut>>

SendRaw(s) ==
    /\ sender[s] = "raw"
    /\ remain[s] > 0 /\ pos[s] < length[s]
    /\ Put(s, <<Tok("payload", 1)>>)
    /\ pos' = [pos EXCEPT ![s] = @ + 1]
    /\ remain' = [remain EXCEPT ![s] = @ - 1]
    /\ UNCHANGED <<avars, length, sender, readerSide, cut>>

\* Everything announced was sent, or the file has come to an early end.
EndRaw(s) ==
    /\ AtSender(s, "raw", "sent")
    /\ remain[s] = 0 \/ pos[s] >= length[s]
    /\ cut' = [cut EXCEPT ![s] = remain[s] > 0]
    /\ Put(s, <<Tok("next", 0)>>)
    /\ UNCHANGED <<avars, length, pos, remain, readerSide>>

\* A block in a frame of its own that says how long it is.
RawFrame(s) == Put(s, <<Tok("R", 1), Tok("payload", 1)>>)
ZipFrame(s) == Put(s, <<Tok("Zc", 1), Tok("payload", 1)>>)

ReadsBlock(s) ==
    /\ sender[s] = "blocks" /\ pos[s] < length[s]
    /\ pos' = [pos EXCEPT ![s] = @ + 1]

\* Below MIN_COMPRESS: raw, and the controller is not asked.
TinyBlock(s) ==
    /\ ReadsBlock(s)
    /\ RawFrame(s)
    /\ UNCHANGED <<avars, length, sender, remain, readerSide, cut>>

ModeBlock(s) ==
    /\ ReadsBlock(s)
    /\ RawBlock(s)
    /\ RawFrame(s)
    /\ UNCHANGED <<length, sender, remain, readerSide, cut>>

CompressBlock(s) ==
    /\ ReadsBlock(s)
    /\ StartBlock(s)
    /\ sender' = [sender EXCEPT ![s] = "report"]
    /\ UNCHANGED <<length, remain, conn, readerSide, cut>>

ShrunkBlock(s) ==
    /\ AtSender(s, "report", "blocks")
    /\ \E wire \in WireSizes, spare \in Spares : NoteCompressed(s, wire, spare)
    /\ ZipFrame(s)
    /\ UNCHANGED <<length, pos, remain, readerSide, cut>>

\* Variant: the frame's line is left out when the block did not shrink.
FlatBlockNoLine(s) ==
    /\ AtSender(s, "report", "blocks")
    /\ NoteIncompressible(s)
    /\ Put(s, <<Tok("payload", 1)>>)
    /\ UNCHANGED <<length, pos, remain, readerSide, cut>>

FlatBlock(s) ==
    /\ AtSender(s, "report", "blocks")
    /\ NoteIncompressible(s)
    /\ RawFrame(s)
    /\ UNCHANGED <<length, pos, remain, readerSide, cut>>

EndBlocks(s) ==
    /\ AtSender(s, "blocks", "sent")
    /\ pos[s] >= length[s]
    /\ Put(s, <<Tok("E", 0), Tok("next", 0)>>)
    /\ UNCHANGED <<avars, length, pos, remain, readerSide, cut>>

------------------------------------------------------------------------------
(* The client. *)

Takes(s, from) ==
    /\ reader[s] = from
    /\ conn[s] # <<>>
    /\ conn' = [conn EXCEPT ![s] = Tail(@)]
    /\ UNCHANGED <<avars, length, serverSide, cut>>

ReadHeader(s) ==
    /\ Takes(s, "header")
    /\ LET h == Head(conn[s])
       IN  /\ reader' = [reader EXCEPT ![s] = IF h.type = "Z" THEN "blocks"
                                              ELSE IF h.n = 0 THEN "done" ELSE "raw"]
           /\ left' = [left EXCEPT ![s] = IF h.type = "Z" THEN 0 ELSE h.n]
    /\ UNCHANGED <<got, misread>>

\* Payload of as many bytes as the header or the frame said.
ReadPayload(s, from, then) ==
    /\ Takes(s, from)
    /\ left[s] > 0
    /\ left' = [left EXCEPT ![s] = @ - 1]
    /\ got' = [got EXCEPT ![s] = @ + 1]
    /\ misread' = [misread EXCEPT ![s] = @ \/ Head(conn[s]).type # "payload"]
    /\ reader' = [reader EXCEPT ![s] = IF left'[s] = 0 THEN then ELSE from]

\* A frame's line, or the E after the last one.
ReadFrame(s) ==
    /\ Takes(s, "blocks")
    /\ left[s] = 0
    /\ LET h == Head(conn[s])
       IN  /\ left' = [left EXCEPT ![s] = h.n]
           /\ reader' = [reader EXCEPT ![s] = IF h.type = "E" THEN "done" ELSE "blocks"]
    /\ UNCHANGED <<got, misread>>

ReadNext(s) ==
    /\ Takes(s, "done")
    /\ reader' = [reader EXCEPT ![s] = "idle"]
    /\ UNCHANGED <<left, got, misread>>

------------------------------------------------------------------------------

\* The stream goes on to its next large file, with the controller as it is.
NextFile(s) ==
    /\ AtSender(s, "sent", "open")
    /\ reader[s] = "idle"
    /\ reader' = [reader EXCEPT ![s] = "header"]
    /\ pos' = [pos EXCEPT ![s] = 0]
    /\ remain' = [remain EXCEPT ![s] = 0]
    /\ got' = [got EXCEPT ![s] = 0]
    /\ \E n \in 0..MaxLength : length' = [length EXCEPT ![s] = n]
    /\ UNCHANGED <<avars, conn, left, misread, cut>>

SendFile(s) ==
    \/ AnnounceRaw(s) \/ SendRaw(s) \/ EndRaw(s)
    \/ AnnounceBlocks(s) \/ TinyBlock(s) \/ ModeBlock(s) \/ CompressBlock(s)
    \/ ShrunkBlock(s) \/ FlatBlock(s) \/ EndBlocks(s)

ReceiveFile(s) ==
    \/ ReadHeader(s) \/ ReadPayload(s, "raw", "done") \/ ReadPayload(s, "blocks", "blocks")
    \/ ReadFrame(s) \/ ReadNext(s)

LargeNext == \E s \in Stream : SendFile(s) \/ ReceiveFile(s) \/ Resize(s) \/ NextFile(s)

LargeSpec == LargeInit /\ [][LargeNext]_lvars

------------------------------------------------------------------------------
(* Properties. *)

LargeTypeOK ==
    /\ AdaptiveTypeOK
    /\ length \in [Stream -> 0..MaxLength]
    /\ pos \in [Stream -> 0..MaxLength]
    /\ sender \in [Stream -> {"open", "raw", "blocks", "report", "sent"}]
    /\ remain \in [Stream -> 0..MaxLength]
    /\ conn \in [Stream -> Seq(Token)]
    /\ reader \in [Stream -> {"header", "raw", "blocks", "done", "idle"}]
    /\ left \in [Stream -> 0..MaxLength]
    /\ got \in [Stream -> 0..MaxLength]
    /\ misread \in [Stream -> BOOLEAN]
    /\ cut \in [Stream -> BOOLEAN]

\* Both ends agree where the file ends, however its length changes and whatever
\* the shared controller decides for each block: the receiver takes in exactly
\* the blocks that were read, reads the line after the file as a line, and is
\* never left waiting for more of a file that was sent to its end.  A raw file
\* that came to an early end is excepted.
BodiesStayFramed ==
    \A s \in Stream : ~cut[s] =>
        /\ ~misread[s]
        /\ reader[s] = "idle" => got[s] = pos[s] /\ conn[s] = <<>>
        /\ sender[s] = "sent" /\ conn[s] = <<>> => reader[s] = "idle"

\* After a raw header of n bytes come n bytes: no later line is read as payload.
RawBodyIsWhole == \A s \in Stream : ~misread[s]
==============================================================================
