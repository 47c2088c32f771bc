--------------------------- MODULE MCClientObserve ---------------------------
(* Constants of ClientObserve for model checking. *)
EXTENDS ClientObserve

CONSTANT s1

\* A resource of the first instance, and the second instance as a whole.
MCUris == {[instance |-> 1, resource |-> 7],
           [instance |-> 2, resource |-> LWM2M_MAX_ID]}

\* Queries: both periods with a threshold, the rule broken, the threshold without
\* the minimum period.
Query(set, clear) ==
    [toSet |-> set, toClear |-> clear, minPeriod |-> 1, maxPeriod |-> 2,
     greaterThan |-> 1, lessThan |-> 1, step |-> 1]
MCAttributes == {Query({"pmin", "pmax", "gt"}, {}),
                 Query({"gt", "lt", "st"}, {}), Query({"gt"}, {"pmin"})}
=============================================================================
