----------------------------- MODULE HttpsFetch -----------------------------
(***************************************************************************)
(* How an answer of the host is read over HTTPS: the list of applications  *)
(* and every other text by https_launch_get, box art by                    *)
(* https_launch_get_binary.  The peer's record layer hands over any number *)
(* of bytes at a time, stops, or closes.  A byte of an answer is its       *)
(* place in it; the last four of the header are its delimiter.             *)
(***************************************************************************)
EXTENDS Integers, Sequences

CONSTANTS
    Headers,        \* lengths of a header, 0 for an answer that has none
    ContentLengths,
    ReadSize,       \* the most bytes of one read: io_buf (2048), a TLS record
    HeaderSize,     \* header_buf (4096)
    RawSize,        \* raw_stack (4608)
    TextSize, ArtSize   \* the callers' buffers

ASSUME FetchAssumption ==
    /\ Headers \subseteq Nat \ 1..3 /\ ContentLengths \subseteq Nat
    /\ {ReadSize, HeaderSize, RawSize, TextSize, ArtSize} \subseteq Nat \ {0}

VARIABLE fetch      \* [kind, header, body: of the answer; read, header_len, header_done, resp, at, ret]

FetchTypeOK ==
    fetch \in [kind : {"text", "art"}, header : Headers, body : ContentLengths, read : Nat, header_len : Nat,
               header_done : BOOLEAN, resp : Seq(Nat), at : {"open", "reading", "done"}, ret : Int]

FetchInit ==
    \E kind \in {"text", "art"}, header \in Headers, body \in ContentLengths :
        fetch = [kind |-> kind, header |-> header, body |-> body, read |-> 0, header_len |-> 0,
                 header_done |-> FALSE, resp |-> <<>>, at |-> "open", ret |-> -1]

Left == fetch.header + fetch.body - fetch.read
Smaller(a, b) == IF a < b THEN a ELSE b
(* The bytes from the one after place from, at most n of those that came.  *)
Copied(from, to, n) == [i \in 1..Smaller(n, to - from) |-> from + i]

(* Where the delimiter is seen in the bytes from .. to; -1 if it is not.   *)
DelimiterIn(from, to) == IF fetch.header > 0 /\ from <= fetch.header - 4 /\ fetch.header <= to THEN fetch.header ELSE -1

(***************************************************************************)
(* The connection, the handshake and the pin.  A refused pin of            *)
(* https_launch_get_binary ends with the 0 of the handshake.               *)
(***************************************************************************)
FetchOpens ==
    /\ fetch.at = "open"
    /\ \/ fetch' = [fetch EXCEPT !.at = "reading"]
       \/ \E ret \in {-1, 0} : fetch' = [fetch EXCEPT !.at = "done", !.ret = ret]

(***************************************************************************)
(* https_launch_get: the answer is gathered in raw and split at its end;   *)
(* what does not fit raw is never read.                                    *)
(***************************************************************************)
TextEnds(f) ==
    LET from == DelimiterIn(0, f.read)
    IN  [f EXCEPT !.at = "done", !.ret = IF f.read > 0 THEN 0 ELSE -1,
                  !.resp = Copied(IF from = -1 THEN 0 ELSE from, f.read, TextSize - 1)]

ReadText(n) ==
    /\ fetch.at = "reading" /\ fetch.kind = "text"
    /\ n <= RawSize - 1 - fetch.read
    /\ LET f == [fetch EXCEPT !.read = @ + n]
       IN  fetch' = IF f.read = RawSize - 1 THEN TextEnds(f) ELSE f

(***************************************************************************)
(* https_launch_get_binary: the header is gathered until its delimiter is  *)
(* seen, which may be spread over reads; the rest goes to the caller.      *)
(***************************************************************************)
ArtEnds(f) ==
    LET kept == IF f.header_done THEN f.resp ELSE Copied(0, f.header_len, ArtSize)
    IN  [f EXCEPT !.at = "done", !.ret = Len(kept), !.resp = kept]

(* Mutant: every read is searched for the delimiter by itself.             *)
SearchStartAtRead(header_len) == header_len

SearchStart(header_len) == IF header_len >= 3 THEN header_len - 3 ELSE 0

ReadHeader(n) ==
    LET seen == fetch.header_len + n
        from == DelimiterIn(SearchStart(fetch.header_len), seen)
        f == [fetch EXCEPT !.read = @ + n, !.header_len = seen, !.header_done = from # -1,
                           !.resp = IF from = -1 THEN @ ELSE Copied(from, seen, ArtSize)]
    IN  /\ fetch.at = "reading" /\ fetch.kind = "art" /\ ~fetch.header_done
        /\ fetch' = IF seen > HeaderSize - 1 THEN [fetch EXCEPT !.at = "done", !.ret = -1]
                    ELSE IF f.header_done /\ Len(f.resp) = ArtSize THEN ArtEnds(f) ELSE f

ReadBody(n) ==
    LET f == [fetch EXCEPT !.read = @ + n,
                           !.resp = @ \o Copied(fetch.read, fetch.read + n, ArtSize - Len(@))]
    IN  /\ fetch.at = "reading" /\ fetch.kind = "art" /\ fetch.header_done
        /\ fetch' = IF Len(f.resp) = ArtSize THEN ArtEnds(f) ELSE f

(* The peer closes, the read fails, or nothing comes for five seconds: all *)
(* the same to both, and whatever came is the answer.                      *)
FetchEnds ==
    /\ fetch.at = "reading"
    /\ fetch' = IF fetch.kind = "text" THEN TextEnds(fetch) ELSE ArtEnds(fetch)

FetchNext ==
    \/ FetchOpens
    \/ \E n \in 1..Smaller(ReadSize, Left) : ReadText(n) \/ ReadHeader(n) \/ ReadBody(n)
    \/ FetchEnds

(***************************************************************************)
(* However an answer is cut into reads, its caller gets the body's first   *)
(* bytes in their order, none of them twice and none of the header: as     *)
(* many as came and as the buffers hold, and for art that is refused for   *)
(* the size of its header nothing at all.  Only an answer that ended       *)
(* before its delimiter is handed over as it is.                           *)
(* (https_launch_get, https_launch_get_binary)                             *)
(***************************************************************************)
FetchedExact ==
    LET h    == fetch.header
        size == IF fetch.kind = "text" THEN TextSize - 1 ELSE ArtSize
    IN  fetch.at = "done" /\ h > 0 /\ fetch.read >= h =>
            fetch.resp = IF fetch.ret = -1 THEN <<>> ELSE [i \in 1..Smaller(size, fetch.read - h) |-> h + i]
=============================================================================
