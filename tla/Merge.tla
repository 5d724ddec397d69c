-------------------------------- MODULE Merge --------------------------------
(***************************************************************************)
(* What every data collector that matches events by a number promises,     *)
(* whatever its queues, connections and loops look like: an event that is  *)
(* written holds exactly the events of the oldest number that are there,   *)
(* and a coincidence that is wanted is never broken up or thrown away,     *)
(* except with everything else when the collector may be cleared.          *)
(***************************************************************************)
EXTENDS Sequences

CONSTANTS
  Sources,          \* the producers
  Keys,             \* the numbers that events are matched by
  Before(_, _)      \* the order of the numbers

VARIABLES
  avail,            \* <<source, key>> of every event that can be merged
  out,              \* what was written: key and sources
  wanted,           \* the coincidences to be written: key and sources
  over              \* what is queued may be cleared; the environment
                    \* changes both at will

vars == <<avail, out>>

Together(k) == {s \in Sources : <<s, k>> \in avail}

Oldest(k) ==
  /\ Together(k) # {}
  /\ \A e \in avail : ~Before(e[2], k)

Coincidence(k) == [key |-> k, subs |-> Together(k)]

Init == avail = {} /\ out = <<>>

Deliver(s, k) ==
  /\ avail' = avail \cup {<<s, k>>}
  /\ UNCHANGED out

Write(k) ==
  /\ Oldest(k)
  /\ Coincidence(k) \in wanted
  /\ out' = Append(out, Coincidence(k))
  /\ avail' = {e \in avail : e[2] # k}

Drop ==
  /\ avail' \subseteq avail
  /\ \A e \in avail \ avail' : Coincidence(e[2]) \notin wanted
  /\ UNCHANGED out

Clear ==
  /\ over'
  /\ avail' = {}
  /\ out' \in {out, <<>>}

Next ==
  \/ \E s \in Sources, k \in Keys : Deliver(s, k)
  \/ \E k \in Keys : Write(k)
  \/ Drop
  \/ Clear

Spec == Init /\ [][Next]_vars
=============================================================================
