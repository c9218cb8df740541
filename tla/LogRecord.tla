----------------------------- MODULE LogRecord -----------------------------
(***************************************************************************)
(* What LogFilter.filter makes of a record with sanitize on: sanitize_data *)
(* of utils.py on its context, truncation and detection on its message.    *)
(*                                                                         *)
(* A context is made of Python objects that may be shared and may contain  *)
(* each other: h[o] is [kind, items] for each object o, and an item is     *)
(* [key, value], value being an object, a "text", or a "secret" that       *)
(* detect_sensitive_data finds.  Scalars that are not text count as text:  *)
(* both are handed on.                                                     *)
(*                                                                         *)
(* The result has a place for each item of a dict, and one for each item   *)
(* of a list that is an item of a dict: <<o, i, 0>> is the i-th item of    *)
(* dict o and <<o, i, j>> the j-th of the list that stands there.  An      *)
(* object that is shared has a place wherever it is met.                   *)
(***************************************************************************)
EXTENDS Integers, Sequences, FiniteSets, Lists

CONSTANTS
    Objects, Root,   \* Root is the context itself
    Contexts         \* the contexts to look at

Items == [key : {"name", "password", "number", ""}, value : Objects \cup {"text", "secret"}]

ASSUME ObjectsAssumption == IsFiniteSet(Objects) /\ Objects \cap {"text", "secret"} = {}
ASSUME ContextsAssumption ==
    /\ Root \in Objects
    /\ \A h \in Contexts :
          /\ h \in [Objects -> [kind : {"dict", "list", "tuple"}, items : Seq(Items)]]
          /\ h[Root].kind = "dict"

IsObject(v) == v \in Objects
IsDict(h, v) == IsObject(v) /\ h[v].kind = "dict"

ItemAt(h, p) == h[p[1]].items[p[2]]
ListAt(h, p) == IsObject(ItemAt(h, p).value) /\ h[ItemAt(h, p).value].kind = "list"
ValueAt(h, p) ==
    IF p[3] = 0 THEN ItemAt(h, p).value ELSE h[ItemAt(h, p).value].items[p[3]].value

(* A key that a sensitive pattern matches; a key that is a number raises   *)
(* TypeError in the match.                                                 *)
Sensitive(key) == key = "password"
RaisesOn(h, o) == \E i \in DOMAIN h[o].items : h[o].items[i].key = "number"

(* Mutant: a sensitive key does not end the treatment of its value. *)
PartsNoSkip(h, o) ==
    LET spread(i) == LET v == h[o].items[i].value IN
            IF IsObject(v) /\ h[v].kind = "list" THEN [j \in DOMAIN h[v].items |-> <<o, i, j>>]
            ELSE <<<<o, i, 0>>>>
    IN  Seqs!FlattenSeq([i \in DOMAIN h[o].items |-> spread(i)])

(* The places that sanitize_data goes through for dict o: its items, and   *)
(* the items of the lists among them.                                      *)
Parts(h, o) ==
    LET spread(i) == LET v == h[o].items[i].value IN
            IF Sensitive(h[o].items[i].key) THEN <<>>
            ELSE IF IsObject(v) /\ h[v].kind = "list"
                 THEN [j \in DOMAIN h[v].items |-> <<o, i, j>>]
            ELSE <<<<o, i, 0>>>>
    IN  Seqs!FlattenSeq([i \in DOMAIN h[o].items |-> spread(i)])

(* sanitize_data, with the recursion as a stack: todo are the places still *)
(* to be looked at.  Of the others, kept are those whose value is handed   *)
(* on as it is, whole those where a dict stands, sanitised, and marked     *)
(* those where {"_circular": "[REDACTED]"} stands for a dict that has been *)
(* entered before, inside itself or not; the rest is "[REDACTED]".         *)
Enter(h, r, o) ==
    [todo |-> Parts(h, o) \o r.todo, seen |-> r.seen \cup {o}, kept |-> r.kept,
     whole |-> r.whole, marked |-> r.marked, raised |-> r.raised \/ RaisesOn(h, o)]

Look(h, r) ==
    IF r.todo = <<>> THEN r ELSE
    LET p == Head(r.todo)
        v == ValueAt(h, p)
        rest == [r EXCEPT !.todo = Tail(r.todo)]
    IN  IF v = "secret" THEN rest
        ELSE IF ~IsDict(h, v) THEN [rest EXCEPT !.kept = r.kept \cup {p}]
        ELSE IF v \in r.seen THEN [rest EXCEPT !.marked = r.marked \cup {p}]
        ELSE Enter(h, [rest EXCEPT !.whole = r.whole \cup {p}], v)

(* It looks at no more places than the dicts have.                         *)
Sanitize(h) ==
    LET start == [todo |-> <<>>, seen |-> {}, kept |-> {}, whole |-> {}, marked |-> {},
                  raised |-> FALSE]
        after[n \in Nat] ==
            IF n = 0 THEN Enter(h, start, Root) ELSE Look(h, after[n - 1])
    IN  after[TotalOf([o \in Objects |-> Len(Parts(h, o))], Objects)]

(* The message: where its secret ends relative to max_message_length, and  *)
(* what can be left of it after truncation and detection.  Part of a       *)
(* secret may match a pattern or not.                                      *)
Truncated(where) == CASE where = "within" -> "whole" [] where = "across" -> "part"
                      [] OTHER -> "nothing"
Detected(rest) == CASE rest = "whole" -> {TRUE} [] rest = "part" -> BOOLEAN
                    [] OTHER -> {FALSE}
FilteredMessage(where) ==
    {IF found THEN "nothing" ELSE Truncated(where) : found \in Detected(Truncated(where))}

-----------------------------------------------------------------------------
(* The reference: what is in plain sight, by reachability.                 *)
IsPlace(h, p) ==
    /\ p[2] \in DOMAIN h[p[1]].items
    /\ IF ListAt(h, p) THEN p[3] \in DOMAIN h[ItemAt(h, p).value].items ELSE p[3] = 0

InSight(h, dicts) ==
    LET indices == {0} \cup UNION {DOMAIN h[o].items : o \in Objects}
    IN  {p \in dicts \X indices \X indices : IsPlace(h, p) /\ ItemAt(h, p).key # "password"}

DictsInSight(h, dicts) == {p \in InSight(h, dicts) : IsDict(h, ValueAt(h, p))}

(* Root, and whatever dict is in sight of those. *)
Entered(h) ==
    LET closed == {D \in SUBSET Objects :
                      /\ Root \in D
                      /\ \A p \in DictsInSight(h, D) : ValueAt(h, p) \in D}
    IN  {o \in Objects : \A D \in closed : o \in D}

(* However the objects of a context are shared, nested or cyclic: of what  *)
(* is in sight, every text is handed on and no secret is, and so is, as it *)
(* is, a tuple, and a list inside a list.  A dict in sight stands in full  *)
(* at one place, the context itself at none but the outermost, and at all  *)
(* the others the mark stands, where what the dict holds is not shown.  It *)
(* raises for a number as key in sight, and for nothing else.              *)
SanitizerSound ==
    /\ \A h \in Contexts :
          LET s == Sanitize(h)
              sight == InSight(h, Entered(h))
          IN  /\ s.raised = \E o \in Entered(h) : RaisesOn(h, o)
              /\ s.kept = {p \in sight : ValueAt(h, p) # "secret" /\ ~IsDict(h, ValueAt(h, p))}
              /\ s.whole \cup s.marked = DictsInSight(h, Entered(h))
              /\ s.whole \cap s.marked = {}
              /\ \A p \in s.whole : ValueAt(h, p) # Root
              /\ \A o \in Entered(h) \ {Root} :
                    \E p \in s.whole : {q \in s.whole : ValueAt(h, q) = o} = {p}
    /\ \A where \in {"within", "across", "beyond", "none"} : "whole" \notin FilteredMessage(where)
=============================================================================
