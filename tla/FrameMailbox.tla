---------------------------- MODULE FrameMailbox ----------------------------
(***************************************************************************)
(* What the frame pool promises its two users: a one-place mailbox in which *)
(* the newest picture wins.  Pictures are numbered from 1 within a session. *)
(* A picture is delivered at most once, never after a newer one, and never  *)
(* after a newer one was put in the box.                                    *)
(***************************************************************************)
EXTENDS Naturals

VARIABLES box,         \* the picture waiting, 0 when there is none
          newest,      \* the last picture put in this session
          taken        \* the last picture delivered in this session

vars == <<box, newest, taken>>

Init == box = 0 /\ newest = 0 /\ taken = 0

\* The decoder finished one or more pictures; only the last is kept.
Put == /\ newest' > newest
       /\ box' = newest'
       /\ UNCHANGED taken

\* The presenter takes the waiting picture.
Take == box # 0 /\ taken' = box /\ box' = 0 /\ UNCHANGED newest

\* A decoder reset discards stale output.
Discard == box # 0 /\ box' = 0 /\ UNCHANGED <<newest, taken>>

\* A new session numbers its pictures from 1 again.
Restart == box' = 0 /\ newest' = 0 /\ taken' = 0

Next == Put \/ Take \/ Discard \/ Restart

Spec == Init /\ [][Next]_vars
=============================================================================
