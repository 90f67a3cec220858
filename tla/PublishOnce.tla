---------------------------- MODULE PublishOnce ----------------------------
(***************************************************************************)
(* What publishing to one Page promises, whatever workers, requests and    *)
(* the platform do: an attempt asks the platform to publish at most once,  *)
(* it does not ask while another request of the Page that the system still *)
(* counts on is under way, the platform accepts nothing it is not being    *)
(* asked for, and an attempt is held to be published only if the platform  *)
(* did accept it.  The system may lose a request: give the attempt up as   *)
(* stale while the platform is still receiving it.                         *)
(***************************************************************************)
EXTENDS Naturals

CONSTANT Attempts

VARIABLES stage,      \* where the request of each attempt stands
          accepted,   \* the attempts whose finish call the platform accepted
          confirmed   \* the attempts the system holds to be published

vars == <<stage, accepted, confirmed>>

Stages == {"none", "waiting", "calling", "lost", "over"}

Init == /\ stage = [a \in Attempts |-> "none"]
        /\ accepted = {}
        /\ confirmed = {}

Enqueue(a) == /\ stage[a] = "none"
              /\ stage' = [stage EXCEPT ![a] = "waiting"]
              /\ UNCHANGED <<accepted, confirmed>>

Call(a) == /\ stage[a] = "waiting"
           /\ \A b \in Attempts : stage[b] # "calling"
           /\ stage' = [stage EXCEPT ![a] = "calling"]
           /\ UNCHANGED <<accepted, confirmed>>

Lose(a) == /\ stage[a] = "calling"
           /\ stage' = [stage EXCEPT ![a] = "lost"]
           /\ UNCHANGED <<accepted, confirmed>>

Accept(a) == /\ stage[a] \in {"calling", "lost"}
             /\ accepted' = accepted \cup {a}
             /\ UNCHANGED <<stage, confirmed>>

\* The request ends, with an answer or without one.
Return(a) == /\ stage[a] \in {"calling", "lost"}
             /\ stage' = [stage EXCEPT ![a] = "over"]
             /\ confirmed' \in {confirmed, confirmed \cup ({a} \cap accepted)}
             /\ UNCHANGED accepted

\* The platform is asked again about an attempt whose request is over.
Learn(a) == /\ stage[a] = "over"
            /\ confirmed' \in {confirmed \ {a}, confirmed \cup ({a} \cap accepted)}
            /\ UNCHANGED <<stage, accepted>>

Next == \E a \in Attempts :
          Enqueue(a) \/ Call(a) \/ Lose(a) \/ Accept(a) \/ Return(a) \/ Learn(a)

Spec == Init /\ [][Next]_vars
=============================================================================
