--------------------------- MODULE MCReportDelivery ---------------------------
(* Instances of ReportDelivery for TLC. *)
EXTENDS ReportDelivery, TLC

CONSTANTS t1, t2, h1, h2

TwoTickers == {t1, t2}
OneHandler == {h1}
TwoHandlers == {h1, h2}

Scene(kind, parts, jobs, requests, events, limit) ==
    [kind |-> kind, parts |-> parts, jobs |-> jobs, requests |-> requests, events |-> events,
     faults |-> limit]
Text == {"text"}
Both == {"text", "excel"}

\* What may happen together: two ticks at once; one tick, failures and
\* an owner who leaves and comes back; a reply; manual
\* retries and undeliverable messages; an occurrence that is cancelled, deleted or
\* reconfigured; test sends; a run of all three messages.
Day ==
    {Scene("SCHEDULED", Text, {t1, t2}, {}, {}, 0),
     Scene("SCHEDULED", Text, {t1}, {"owner"}, {}, 2),
     Scene("SCHEDULED", Text, {t1, h1}, {"reply"}, {}, 0),
     Scene("SCHEDULED", Text, {t1, h1}, {"retry", "configure"}, {"FAILED"}, 0),
     Scene("SCHEDULED", Text, {t1, h1}, {"cancel", "delete", "configure"}, {}, 1),
     Scene("TEST", Text, {h1}, {"test", "retry", "delete", "reply"}, {}, 1),
     Scene("SCHEDULED", Both, {t1}, {}, {}, 1)}

\* The ticks of one process, and a provider that does not answer.
Silence == {Scene("SCHEDULED", Text, {t1}, {}, {}, 1)}
\* Nothing runs until the catch-up time is over; then the recipient writes.
Outage == {Scene("SCHEDULED", Text, {t1, h1}, {"reply"}, {}, 1)}
\* Two users, one of whom sends a test that cannot be built.
Tests == {Scene("TEST", Text, {h1, h2}, {"test", "retry"}, {}, 1)}
\* Retries, and a run that is removed from the history.
Removed == {Scene("SCHEDULED", Text, {t1, h1}, {"retry", "delete"}, {}, 0)}
\* Two callbacks at once.
Callbacks == {Scene("SCHEDULED", Text, {t1, h1, h2}, {}, {"DELIVERED", "READ"}, 0)}
\* A tick and a reply at once.
Answered == {Scene("SCHEDULED", Text, {t1, h1}, {"reply"}, {}, 0)}
================================================================================
