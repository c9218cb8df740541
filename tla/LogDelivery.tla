----------------------------- MODULE LogDelivery -----------------------------
(***************************************************************************)
(* What LogService promises about each entry, whatever threads, timers and *)
(* failures do: an accepted entry is sent at most once, it ends in at most *)
(* one way, destroy discards nothing that was accepted before it, and only *)
(* where a flush may raise can a whole batch go astray.                    *)
(* LogService is shown to implement this specification.                    *)
(***************************************************************************)
EXTENDS FiniteSets

CONSTANTS
    Entries,
    FlushMayRaise   \* whether a flush may raise after it took the entries

VARIABLES
    place,    \* where each entry is
    closing,  \* destroy has been called
    early     \* the entries accepted before that

dvars == <<place, closing, early>>

Places == {"new", "refused", "buffered", "taken", "delivered", "failed",
           "evicted", "discarded", "strayed"}

At(p) == {e \in Entries : place[e] = p}
Moved(S, p) == [e \in Entries |-> IF e \in S THEN p ELSE place[e]]

DeliveryInit ==
    /\ place = [e \in Entries |-> "new"]
    /\ closing = FALSE
    /\ early = {}

(* The filter rejects the entry, or the logger is closed. *)
Refuse(e) ==
    /\ place[e] = "new"
    /\ place' = Moved({e}, "refused")
    /\ UNCHANGED <<closing, early>>

(* An entry comes in; back-pressure may push out any set of entries. *)
Accept(e) ==
    /\ place[e] = "new"
    /\ \E out \in SUBSET (At("buffered") \cup {e}) :
          place' = [x \in Entries |-> IF x \in out THEN "evicted"
                                      ELSE IF x = e THEN "buffered" ELSE place[x]]
    /\ UNCHANGED <<closing, early>>

(* A flush takes the whole buffer. *)
Take ==
    /\ place' = Moved(At("buffered"), "taken")
    /\ UNCHANGED <<closing, early>>

(* A flush takes the whole buffer and raises: nobody has the entries. *)
Stray ==
    /\ FlushMayRaise
    /\ place' = Moved(At("buffered"), "strayed")
    /\ UNCHANGED <<closing, early>>

(* The transport accepts or refuses some of the entries that were taken. *)
Finish(S, outcome) ==
    /\ S \subseteq At("taken")
    /\ place' = Moved(S, outcome)
    /\ UNCHANGED <<closing, early>>

Close ==
    /\ closing' = TRUE
    /\ early' = IF closing THEN early
                ELSE Entries \ (At("new") \cup At("refused"))
    /\ UNCHANGED place

(* While closing, late entries go unsent, but never an early one. *)
Discard ==
    /\ closing
    /\ At("buffered") \cap early = {}
    /\ place' = Moved(At("buffered"), "discarded")
    /\ UNCHANGED <<closing, early>>

DiscardLate(e) ==
    /\ closing
    /\ place[e] = "new"
    /\ place' = Moved({e}, "discarded")
    /\ UNCHANGED <<closing, early>>

DeliveryNext ==
    \/ \E e \in Entries : Refuse(e) \/ Accept(e) \/ DiscardLate(e)
    \/ Take
    \/ Stray
    \/ \E S \in SUBSET Entries, outcome \in {"delivered", "failed"} : Finish(S, outcome)
    \/ Close
    \/ Discard

DeliverySpec == DeliveryInit /\ [][DeliveryNext]_dvars
=============================================================================
