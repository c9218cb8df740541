----------------------------- MODULE LokiFormat -----------------------------
(***************************************************************************)
(* _format_for_loki of loki_json_transport.py and _format_payload of       *)
(* loki_protobuf_transport.py: a batch is grouped into one stream for each *)
(* set of labels.                                                          *)
(*                                                                         *)
(* An entry is [labels, at] and is named by its position in the batch.     *)
(* Its thread stamps it before it adds it to the buffer, so a batch is not *)
(* in the order of its timestamps.  They are compared as texts of          *)
(* nanoseconds, of the same length from 2001 to 2286: as numbers, here.    *)
(***************************************************************************)
EXTENDS Integers, Sequences, FiniteSets

(* The elements of a finite set in a strict total order: each comes after  *)
(* as many as are before it.                                               *)
InOrder(S, before) ==
    [m \in 1..Cardinality(S) |->
        CHOOSE i \in S : Cardinality({j \in S : <<j, i>> \in before}) = m - 1]

Arrival(entries) ==
    {p \in (DOMAIN entries) \X (DOMAIN entries) : p[1] < p[2]}

(* list.sort by the timestamps is stable. *)
SortOrder(entries) ==
    {p \in (DOMAIN entries) \X (DOMAIN entries) :
        \/ entries[p[1]].at < entries[p[2]].at
        \/ entries[p[1]].at = entries[p[2]].at /\ p[1] < p[2]}

(* The entries that bring a new key into the dict streams. *)
Openers(entries) ==
    {i \in DOMAIN entries : \A j \in 1..i - 1 : entries[j].labels # entries[i].labels}

Positions(entries, labels) == {i \in DOMAIN entries : entries[i].labels = labels}

(* The dict keeps its keys in their order of insertion. *)
Streams(entries, order) ==
    [n \in 1..Cardinality(Openers(entries)) |->
        LET labels == entries[InOrder(Openers(entries), Arrival(entries))[n]].labels
        IN  [stream |-> labels, values |-> InOrder(Positions(entries, labels), order)]]

FormatPayload(entries) == Streams(entries, Arrival(entries))

FormatForLoki(entries) == Streams(entries, SortOrder(entries))

-----------------------------------------------------------------------------
(* Every entry of the batch stands once, in the stream of its own labels,  *)
(* and nothing else stands in a stream.                                    *)
Whole(streams, entries) ==
    /\ \A n \in DOMAIN streams : \A m \in DOMAIN streams[n].values :
          /\ streams[n].values[m] \in DOMAIN entries
          /\ entries[streams[n].values[m]].labels = streams[n].stream
    /\ \A i \in DOMAIN entries :
          /\ \E n \in DOMAIN streams : \E m \in DOMAIN streams[n].values :
                streams[n].values[m] = i
          /\ \A n1, n2 \in DOMAIN streams :
                \A m1 \in DOMAIN streams[n1].values, m2 \in DOMAIN streams[n2].values :
                   streams[n1].values[m1] = i /\ streams[n2].values[m2] = i
                      => n1 = n2 /\ m1 = m2

(* A stream goes forward in time, and equal timestamps stay in their order *)
(* of arrival.                                                             *)
Chronological(streams, entries) ==
    \A n \in DOMAIN streams :
        \A m1, m2 \in DOMAIN streams[n].values :
            LET i == streams[n].values[m1]
                j == streams[n].values[m2]
            IN  m1 < m2 => /\ entries[i].at <= entries[j].at
                           /\ entries[i].at = entries[j].at => i < j
=============================================================================
