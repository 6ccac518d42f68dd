-------------------------- MODULE ForecastDelivery --------------------------
(***************************************************************************)
(* What the generation loop promises, seen from the sink: the due times    *)
(* are settled one after the other, in the order of the time axis, and     *)
(* settling a time publishes everything promised for it, at once, or       *)
(* nothing when nothing was promised.  A time that fails costs no other    *)
(* time anything, and every due time is settled in the end.                *)
(***************************************************************************)
EXTENDS Naturals, Sequences

VARIABLES
    promise,   \* input: the set to be published for each due time, a sequence
    settled,   \* how many of them have been settled
    published  \* <<position, output>> pairs

dvars == <<settled, published>>

Init ==
    /\ settled = 0
    /\ published = {}

Settle ==
    /\ settled < Len(promise)
    /\ settled' = settled + 1
    /\ published' = published \cup ({settled + 1} \X promise[settled + 1])

Spec == Init /\ [][Settle]_dvars /\ WF_dvars(Settle)

=============================================================================
