------------------------------- MODULE AgeGate -------------------------------
(* What the proxy promises cargo users, whatever its caches do: an answer     *)
(* shows only version lines upstream has published for that very crate, and,  *)
(* under a cooldown window, none younger than the window.  The detailed model *)
(* IndexProxy implements this specification.                                  *)
EXTENDS Cooldown

CONSTANTS Clients, Names, Files, FileOf, Overrides, Windows, LastRev, RevLines,
          MaxTime

VARIABLES
  now,       \* the clock
  window,    \* the window in force; 0 is no gate
  upstream,  \* the current revision of every crate
  view       \* the lines each client was last shown of each name, and the
             \* window it was shown them under

vars == <<now, window, upstream, view>>

Published(f) == UNION {RevLines[f][r] : r \in 1..upstream[f]}

WindowFor(n) == IF FileOf[n] \in Overrides THEN 0 ELSE window

Old(lines, w) == \A v \in lines : ~TooNew(v, CutoffFrom(now, w))

Nothing == [lines |-> {}, under |-> 0]

Init ==
  /\ now = 0
  /\ window \in Windows
  /\ upstream = [f \in Files |-> 1]
  /\ view = [c \in Clients |-> [n \in Names |-> Nothing]]

(* The proxy answers, or confirms what the client already holds.              *)
Answer(c, n) ==
  /\ \E lines \in SUBSET Published(FileOf[n]) :
       /\ WindowFor(n) > 0 => Old(lines, WindowFor(n))
       /\ view' = [view EXCEPT ![c][n] =
                     [lines |-> lines, under |-> WindowFor(n)]]
  /\ UNCHANGED <<now, window, upstream>>

Publish(f) ==
  /\ upstream[f] < LastRev
  /\ upstream' = [upstream EXCEPT ![f] = @ + 1]
  /\ UNCHANGED <<now, window, view>>

Tick ==
  /\ now < MaxTime
  /\ now' = now + 1
  /\ UNCHANGED <<window, upstream, view>>

Reconfigure ==
  /\ window' \in Windows
  /\ UNCHANGED <<now, upstream, view>>

Next ==
  \/ \E c \in Clients, n \in Names : Answer(c, n)
  \/ \E f \in Files : Publish(f)
  \/ Tick
  \/ Reconfigure

Spec == Init /\ [][Next]_vars
=============================================================================
