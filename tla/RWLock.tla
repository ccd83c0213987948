------------------------------ MODULE RWLock ------------------------------
(***************************************************************************)
(* What the transaction layer promises its clients (spec 4.6 and 5): one   *)
(* process-wide reader/writer isolation lock.  A client asks for it in a   *)
(* mode, waits, holds it, and gives it back; a read-write holder excludes  *)
(* every other holder; and the lock is fair, so every client that asks     *)
(* eventually holds it.                                                    *)
(*                                                                         *)
(* The lock may change the situation of several clients in one step (one  *)
(* Unlock admits all blocked readers at once), so a step is any change in  *)
(* which every client follows its life cycle and the holders stay          *)
(* compatible.                                                             *)
(***************************************************************************)
CONSTANTS Clients

Modes == {"ReadOnly", "ReadWrite"}
NoMode == "none"

VARIABLES
  waiting,   \* per client, the mode it asked for and waits on, or NoMode
  holding    \* per client, the mode it holds, or NoMode

lvars == <<waiting, holding>>

\* No read-write holder shares the lock.
Compatible(h) ==
  \A c \in Clients : h[c] = "ReadWrite" => \A d \in Clients \ {c} : h[d] = NoMode

\* The moves of one client in one step: ask (and perhaps be granted at
\* once), be granted what it asked for, give the lock back, or stay.
Moves(c, w2, h2) ==
  LET idle == waiting[c] = NoMode /\ holding[c] = NoMode IN
  \/ w2 = waiting[c] /\ h2 = holding[c]
  \/ idle /\ w2 \in Modes /\ h2 = NoMode
  \/ idle /\ w2 = NoMode /\ h2 \in Modes
  \/ waiting[c] \in Modes /\ w2 = NoMode /\ h2 = waiting[c]
  \/ holding[c] \in Modes /\ w2 = NoMode /\ h2 = NoMode

LInit ==
  /\ waiting = [c \in Clients |-> NoMode]
  /\ holding = [c \in Clients |-> NoMode]

\* A step: every client follows its life cycle, the holders stay compatible.
LNext ==
  /\ waiting' \in [Clients -> Modes \cup {NoMode}]
  /\ holding' \in [Clients -> Modes \cup {NoMode}]
  /\ \A c \in Clients : Moves(c, waiting'[c], holding'[c])
  /\ Compatible(holding')

\* Starvation-free, by the primitive's policy: every client that asks for
\* the lock eventually holds it.
StarvationFree == \A c \in Clients : waiting[c] \in Modes ~> holding[c] \in Modes

LSpec == LInit /\ [][LNext]_lvars /\ StarvationFree
=============================================================================
