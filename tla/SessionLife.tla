---------------------------- MODULE SessionLife ----------------------------
(***************************************************************************)
(* What an asynchronous client promises the application that holds it, and *)
(* nothing of how: a first session, each later one opened after the end of *)
(* the one before was reported, and a disconnect that is final, made once  *)
(* for all the calls that ask for it. AsyncClient implements it.           *)
(***************************************************************************)
EXTENDS Naturals

CONSTANTS
  Calls,      \* calls of disconnect()
  Unreported  \* may a session be replaced without a report of its end?

VARIABLES
  session,   \* number of the newest session
  reported,  \* sessions whose end was reported by a Close
  phase,     \* "live", "fenced" (nothing can open a session), "retired"
  call       \* the calls of disconnect()

lifeVars == <<session, reported, phase, call>>

Init ==
  /\ session = 1 /\ reported = {} /\ phase = "live"
  /\ call = [c \in Calls |-> "idle"]

Report ==
  /\ phase = "live"
  /\ reported' = reported \cup {session}
  /\ UNCHANGED <<session, phase, call>>

Open ==
  /\ phase = "live"
  /\ session \in reported \/ Unreported
  /\ session' = session + 1
  /\ UNCHANGED <<reported, phase, call>>

Ask(c) ==
  /\ call[c] = "idle" /\ call' = [call EXCEPT ![c] = "pending"]
  /\ UNCHANGED <<session, reported, phase>>

(* A call that is being served fences the client, then retires it ...       *)
Fence ==
  /\ phase = "live" /\ \E c \in Calls : call[c] = "pending"
  /\ phase' = "fenced"
  /\ UNCHANGED <<session, reported, call>>

Retire ==
  /\ phase = "fenced"
  /\ phase' = "retired"
  /\ UNCHANGED <<session, reported, call>>

(* ... and returns only then, whichever call did it.                        *)
Return(c) ==
  /\ phase = "retired" /\ call[c] = "pending"
  /\ call' = [call EXCEPT ![c] = "done"]
  /\ UNCHANGED <<session, reported, phase>>

Next == Report \/ Open \/ Fence \/ Retire \/ \E c \in Calls : Ask(c) \/ Return(c)

Spec == Init /\ [][Next]_lifeVars
=============================================================================
