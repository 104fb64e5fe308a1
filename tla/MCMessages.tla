----------------------------- MODULE MCMessages -----------------------------
(* Jobs at the boundaries of the lengths: a length field that grows, a     *)
(* PUBLISH past 16 bits, arrays that grow from each side of their          *)
(* thresholds and up to where the capacity goes round.                     *)
EXTENDS Messages

Boundaries == {0, 127, 16383, 2097151, 268435455}
MCLengths == UNION {{n, n + 1, n + 2} : n \in Boundaries}
                 \cup {5, 300, 65535, 65536, 1000000, 2147483647}
MCFillers == {0, 1, 127, 128, 255}

Job(k) ==
    [kind |-> k, own |-> TRUE, slack |-> 0, filters |-> <<>>, values |-> 0, bad |-> 0,
     capacity |-> 0, topic |-> 1, payload |-> 0, qos |-> 0]

MCFilters == {f \in [len : {0, 60, 65535}, qos : {1, 3, 6}, null : BOOLEAN] :
                 f.null => f.len # 65535}
FilterLists == {<<f>> : f \in MCFilters} \cup {<<f, g>> : f, g \in MCFilters}
Foreign == {<<>>} \cup {<<f, g>> : f \in {h \in MCFilters : h.qos # 6 /\ ~h.null},
                                    g \in {h \in MCFilters : h.qos = 1 /\ ~h.null}}

FilterJobs ==
    {[Job("SUBSCRIBE") EXCEPT !.filters = fs] : fs \in FilterLists}
        \cup {[Job("UNSUBSCRIBE") EXCEPT !.filters = fs, !.slack = n] :
                   fs \in FilterLists, n \in {-1, 0, 3}}
        \cup {[Job(k) EXCEPT !.filters = fs, !.own = FALSE] :
                   k \in {"SUBSCRIBE", "UNSUBSCRIBE"}, fs \in Foreign}

SubackJobs ==
    {[Job("SUBACK") EXCEPT !.capacity = c, !.values = v, !.bad = b, !.slack = n] :
         c \in {0, 1, 3, 40, 65530}, v \in {0, 1, 10, 11, 81, 125}, b \in {0, 1},
         n \in {-1, 0, 3}}
        \cup {[Job("SUBACK") EXCEPT !.capacity = c, !.values = 65535] :
                   c \in {0, 3, 65530, 65535}}
        \cup {[Job("SUBACK") EXCEPT !.values = v, !.bad = b, !.own = FALSE] :
                   v \in {0, 1, 2, 11, 65535, 65536 + 65500}, b \in {0, 1, 2}}
        \cup {[Job("SUBACK") EXCEPT !.values = v, !.own = v < 131072] :
                   v \in {65546, 131072, 131075}}

PublishJobs ==
    {[Job("PUBLISH") EXCEPT !.topic = t, !.payload = p, !.qos = q, !.slack = n] :
         t \in {1, 123, 65531, 65535}, p \in {0, 1, 2, 16256, 65531, 65533, 131072},
         q \in 0..2, n \in {-1, 0, 3, 65536}}

MCJobs == {j \in {Job("length")} \cup FilterJobs \cup SubackJobs \cup PublishJobs :
               j.bad <= j.values}
=============================================================================
