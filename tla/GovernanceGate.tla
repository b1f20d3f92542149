---------------------------- MODULE GovernanceGate ----------------------------
(***************************************************************************)
(* What the governance engine promises its callers, with everything of the *)
(* engine left out that they cannot see: the list of primitives in force,  *)
(* which changes one registration or one Clear at a time, and the answer   *)
(* each call is given.  A permission names the primitives it rests on, and *)
(* it rests on all of those in force at one single instant of the call,    *)
(* however the list changes before and after.                              *)
(***************************************************************************)
EXTENDS Sequences

CONSTANTS
  Calls,   \* the calls that may be open
  Entries  \* what is known of a registered primitive: its ID and its version

VARIABLES
  policy,   \* the entries in force, in order
  phase,    \* of the registration under way: idle, probing, closing
  voided,   \* somebody else tried to change the policy meanwhile
  outcome   \* the answer of each call

vars == <<policy, phase, voided, outcome>>

Open == [status |-> "open", attests |-> <<>>]
Denied == [status |-> "denied", attests |-> <<>>]
Permitted == [status |-> "permitted", attests |-> policy]

Init ==
  /\ policy = <<>>
  /\ phase = "idle"
  /\ voided = FALSE
  /\ outcome = [c \in Calls |-> Open]

(* RegisterPrimitive: one at a time; it publishes at most one entry, unless *)
(* it fails or was voided.                                                  *)
RegistrationBegins ==
  /\ phase = "idle"
  /\ phase' = "probing"
  /\ voided' = FALSE
  /\ UNCHANGED <<policy, outcome>>

Publish(entry) ==
  /\ phase = "probing"
  /\ ~voided
  /\ \A i \in DOMAIN policy : policy[i][1] # entry[1]
  /\ policy' = Append(policy, entry)
  /\ phase' = "closing"
  /\ UNCHANGED <<voided, outcome>>

RegistrationFails ==
  /\ phase = "probing"
  /\ phase' = "closing"
  /\ UNCHANGED <<policy, voided, outcome>>

RegistrationEnds ==
  /\ phase = "closing"
  /\ phase' = "idle"
  /\ voided' = FALSE
  /\ UNCHANGED <<policy, outcome>>

(* RegisterPrimitive and Clear during a registration. *)
MutationRefused ==
  /\ phase # "idle"
  /\ voided' = TRUE
  /\ UNCHANGED <<policy, phase, outcome>>

Clear ==
  /\ phase = "idle"
  /\ policy' = <<>>
  /\ UNCHANGED <<phase, voided, outcome>>

(* The answers of Evaluate: a denial is always possible, a permission only *)
(* of a policy that is not empty, and of the whole of it.                   *)
Answer(c, answer) ==
  /\ outcome[c] = Open
  /\ outcome' = [outcome EXCEPT ![c] = answer]
  /\ UNCHANGED <<policy, phase, voided>>

Deny(c) == Answer(c, Denied)

Permit(c) == policy # <<>> /\ Answer(c, Permitted)

Close(c) ==
  /\ outcome[c] # Open
  /\ outcome' = [outcome EXCEPT ![c] = Open]
  /\ UNCHANGED <<policy, phase, voided>>

Next ==
  \/ RegistrationBegins
  \/ \E entry \in Entries : Publish(entry)
  \/ RegistrationFails
  \/ RegistrationEnds
  \/ MutationRefused
  \/ Clear
  \/ \E c \in Calls : Deny(c) \/ Permit(c) \/ Close(c)

Spec == Init /\ [][Next]_vars
=============================================================================
