-------------------------------- MODULE Chat --------------------------------
(***************************************************************************)
(* What the messenger of lab3 promises: two parties, each of which sees    *)
(* what the other one typed, all of it, once and in order.                 *)
(***************************************************************************)
EXTENDS Naturals, Sequences

CONSTANTS
  Text,       \* what is typed
  MaxSends,   \* bound on what one party types in a conversation
  MaxStarts   \* bound on the starts of one party

VARIABLES
  sent,       \* by each party, to the other
  shown       \* to each party

chatVars == <<sent, shown>>

Party == {"first", "second"}
Other(p) == CHOOSE q \in Party : q # p
Nothing == [p \in Party |-> <<>>]

ASSUME ChatBound == MaxSends \in Nat /\ MaxStarts \in Nat

-----------------------------------------------------------------------------
CInit == sent = Nothing /\ shown = Nothing

Type(p) ==
  /\ \E m \in Text : sent' = [sent EXCEPT ![p] = Append(@, m)]
  /\ UNCHANGED shown

Unseen(p) == Len(shown[p]) < Len(sent[Other(p)])

Show(p) ==
  /\ Unseen(p)
  /\ shown' = [shown EXCEPT ![p] = Append(@, sent[Other(p)][Len(@) + 1])]
  /\ UNCHANGED sent

(* Another conversation.                                                   *)
Again == sent' = Nothing /\ shown' = Nothing

CNext == Again \/ \E p \in Party : Type(p) \/ Show(p)

CSpec == CInit /\ [][CNext]_chatVars
=============================================================================
