----------------------------- MODULE MCRuntime -----------------------------
(* Environments and arguments of init for the run of Runtime: for each way *)
(* of treating a setting, the values that are treated differently.         *)
EXTENDS LoggerProxy, TLC

NoVars == [f \in Fields \cup {"enabled"} |-> IF f = "enabled" THEN TRUE ELSE None]
FullVars ==
    [NoVars EXCEPT !.url = "http://env", !.tenant_id = "env", !.app_name = "env",
                   !.max_size = 7, !.max_retries = 0, !.levels = {"error", "verbose"},
                   !.intercept_console = TRUE]
Environments ==
    {NoVars,
     FullVars,
     [FullVars EXCEPT !.enabled = FALSE],
     [FullVars EXCEPT !.max_size = 0, !.max_concurrent_flushes = Garbage,
                      !.half_open_requests = 101, !.max_retries = -1,
                      !.levels = {"verbose"}, !.dlq_enabled = FALSE],
     [NoVars EXCEPT !.url = "http://env", !.max_concurrent_flushes = 256,
                    !.dlq_max_size = 2, !.preserve_original_console = FALSE,
                    !.sanitize = FALSE]}

Nothing == [f \in Fields |-> None]
Minimal == [Nothing EXCEPT !.url = "http://user", !.tenant_id = "user", !.app_name = "user"]
Arguments ==
    {None,
     [Nothing EXCEPT !.app_name = "user"],
     [Minimal EXCEPT !.url = NoScheme],
     [Minimal EXCEPT !.app_name = None],
     [Minimal EXCEPT !.max_size = 0],
     [Minimal EXCEPT !.half_open_requests = -1],
     [Minimal EXCEPT !.max_retries = -1],
     [Minimal EXCEPT !.intercept_console = TRUE, !.max_size = 1, !.levels = {}],
     [Minimal EXCEPT !.intercept_console = TRUE, !.preserve_original_console = FALSE,
                     !.max_retries = 0, !.levels = {"info"}, !.sanitize = FALSE],
     [Minimal EXCEPT !.intercept_console = FALSE, !.max_concurrent_flushes = 1,
                     !.dead_letter_queue = TRUE, !.dlq_max_size = 0]}

(* Contexts of three objects: every dict of one or two items, which may be *)
(* two other objects of any kind, themselves with up to one item.  Under a *)
(* sensitive key is a text or an object, in a tuple a secret or an object. *)
(* log makes the context afresh, so that nothing refers to it.             *)
Item(key, values) == [key : {key}, value : values]
DictItems == Item("name", {"text", "secret", "b", "c"}) \cup Item("password", {"text", "b"})
ListItems == Item("", {"text", "secret", "b", "c"})
TupleItems == Item("", {"secret", "b"})
Holding(kind, n, items) ==
    {[kind |-> kind, items |-> s] : s \in UNION {[1..m -> items] : m \in 0..n}}
Others == Holding("dict", 1, DictItems) \cup Holding("list", 1, ListItems)
                                       \cup Holding("tuple", 1, TupleItems)
WithNumber == [kind |-> "dict", items |-> <<[key |-> "number", value |-> "text"]>>]
Heaps ==
    {[a |-> x, b |-> y, c |-> z] :
        x \in {d \in Holding("dict", 2, DictItems) : d.items # <<>>}, y \in Others, z \in Others \cup {WithNumber}}

RuntimeSymmetry == Permutations(Runtimes)
=============================================================================
