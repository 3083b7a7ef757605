----------------------------- MODULE MCGateway -----------------------------
EXTENDS Gateway

CONSTANTS r1, none

\* Raw segments: "" and "%62" are the empty one and an encoded b.
Segments == {"a", "b", "%62", "", "%2f", "_pubauth"}
Names == [s \in Segments |-> CASE s = "%62" -> "b"
                               [] s = ""    -> "empty"
                               [] s = "%2f" -> "bad"
                               [] OTHER     -> s]

Pattern(path, recursive) == [path |-> path, recursive |-> recursive]
Policy(upstream, pattern, methods, roles, priority, active) ==
  [upstream |-> upstream, pattern |-> pattern, methods |-> methods,
   roles |-> roles, priority |-> priority, active |-> active]

\* The file has a fallback of low priority, a disabled policy, and one for
\* which nobody can have a role.
First == <<Policy("fallback", Pattern(<< >>, TRUE), {"GET"}, {"viewer"}, 1, TRUE),
           Policy("disabled", Pattern(<<"a">>, TRUE), {"GET"}, {"viewer"}, 200, FALSE),
           Policy("closed", Pattern(<<"b">>, TRUE), {"GET"}, {}, 100, TRUE)>>

\* Two policies that overlap.
Created == {Policy("site", Pattern(<<"a">>, TRUE), {"GET"}, {"viewer"}, 100, TRUE),
            Policy("part", Pattern(<<"a", "", "b">>, FALSE), {"GET", "POST"}, {"admin"}, 100, TRUE)}

\* One user with a session in each of two workspaces, and the access token
\* and the id token of the first.
SessionIds   == {"s1", "s2"}
OwnerOf      == [s \in SessionIds |-> [user |-> "ann",
                                       workspace |-> IF s = "s1" THEN "w1" ELSE "w2"]]
TokenIds     == {"t1", "i1"}
UseOf        == [t \in TokenIds |-> IF t = "i1" THEN "id_token" ELSE "access_token"]
TokenSession == [t \in TokenIds |-> "s1"]

Assignable == {[user |-> "ann", role |-> "viewer", workspace |-> "w1"],
               [user |-> "ann", role |-> "admin", workspace |-> "w2"]}

Paths == {<<"a">>, <<"a", "%62">>, <<"b", "">>, <<"a", "%2f">>, <<"_pubauth", "a">>}

\* Each request carries headers of its own and two that look like identity.
Sent == [path : Paths, method : {"GET", "POST"}, bearer : TokenIds \cup {none},
         cookie : SessionIds \cup {none},
         headers : {{"accept", "x-pubauth-roles", "x-pubauth-session-id"}}]

\* Cookies are tried without a token and, once, with one that hides them.
SentByClients == {i \in Sent : i.cookie = none \/ i.bearer = none
                               \/ (i.cookie = "s2" /\ i.bearer = "t1")}

\* What happens after the request is answered is of no interest.
Ongoing == \E r \in Requests : pc[r] # "answered"
=============================================================================
