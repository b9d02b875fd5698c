------------------------------ MODULE Postgrest -----------------------------
(***************************************************************************)
(* internal/postgrest and internal/publish: a caller probes one row        *)
(* through PostgREST, one operation after another, and then publishes what *)
(* it found.  Both take any 2xx for success.                               *)
(***************************************************************************)
EXTENDS Http, Naturals, Sequences

CONSTANT Probes     \* lists of operations to try

Operations == {"select", "update", "delete", "insert"}

ASSUME ProbesAssumption == Probes \subseteq Seq(Operations)

VARIABLES
    ops,         \* the operations to try
    exposed,     \* those the policies let the adversary carry out
    hidden,      \* a row it inserts is not visible to it
    foreign,     \* the schema asked for is not the service's default one
    row,         \* the row probed: "there" | "changed" | "gone"
    results,     \* what the calls of Execute returned, in order
    published    \* what Publish returned, and what reached the endpoint

world == <<ops, exposed, hidden, foreign>>
vars  == <<world, row, results, published>>

Unpublished == [answer |-> "pending", served |-> None, reply |-> None]

Init ==
    /\ ops \in Probes /\ exposed \in SUBSET Operations
    /\ hidden \in BOOLEAN /\ foreign \in BOOLEAN
    /\ row = "there" /\ results = << >> /\ published = Unpublished

Method(operation) ==
    CASE operation = "select" -> "GET"
      [] operation = "update" -> "PATCH"
      [] operation = "delete" -> "DELETE"
      [] operation = "insert" -> "POST"

\* Mutant: only an insert asks for its row.
RepresentedInsert(method) == method = "POST"

\* Only a request with a body asks for the rows it changed.
Represented(method) == method \in {"PATCH", "POST"}

(***************************************************************************)
(* The service: its status, the rows in the body, whether the request took *)
(* effect and what that makes of the row.  A write that has to return its  *)
(* row is subject to the policies for reading, too.  A DELETE reads its    *)
(* schema from Content-Profile.                                            *)
(***************************************************************************)
Reply(status, rows, access, after) ==
    [status |-> status, rows |-> rows, access |-> access, after |-> after]

NoReply == Reply(None, 0, FALSE, row)

\* A policy may decide either way about a row that has been rewritten.
Reach(operation) ==
    CASE row = "there"   -> {operation \in exposed}
      [] row = "changed" -> BOOLEAN
      [] row = "gone"    -> {FALSE}

Body(method) == IF method = "GET" \/ Represented(method) THEN 1 ELSE 0

Reads == {Reply("2xx", IF r THEN 1 ELSE 0, r, row) : r \in Reach("select")}

Updates ==
    {Reply("2xx", Body("PATCH"), TRUE, "changed") : r \in Reach("update") \cap {TRUE}} \cup
    {Reply(status, 0, FALSE, row) : status \in IF FALSE \in Reach("update") THEN {"2xx", "403"} ELSE {}}

Deletes ==
    {IF r /\ ~foreign THEN Reply("2xx", Body("DELETE"), TRUE, "gone")
                      ELSE Reply("2xx", 0, FALSE, row) : r \in Reach("delete")}

Inserts ==
    {IF "insert" \in exposed /\ ~(hidden /\ Represented("POST"))
     THEN Reply("2xx", Body("POST"), TRUE, row)
     ELSE Reply("403", 0, FALSE, row)}

Serve(method) ==
    CASE method = "GET"    -> Reads
      [] method = "PATCH"  -> Updates
      [] method = "DELETE" -> Deletes
      [] method = "POST"   -> Inserts
      [] OTHER             -> {NoReply}

(***************************************************************************)
(* Execute.  A body that does not decode counts as no rows.                *)
(***************************************************************************)
Status(reply, s) ==
    CASE reply = "refused" -> "403"
      [] reply = "error"   -> "500"
      [] OTHER             -> s.status

Rows(reply, s) == IF reply = "garbled" THEN 0 ELSE s.rows

\* Mutant: every status outside 2xx is a denial.
AnyErrorDenies(status, rows) == status # "2xx" \/ rows = 0

Denied(status, rows) == status = "403" \/ (status = "2xx" /\ rows = 0)

\* Mutant: an error is noted only if it is a denial.
ResultOfDenials(operation, x, s) ==
    LET failed == x.reply \in {"unsent", "lost"}
        status == Status(x.reply, s)
    IN  [operation |-> operation, failed |-> failed,
         error  |-> ~failed /\ status = "403",
         denied |-> ~failed /\ Denied(status, Rows(x.reply, s)),
         served |-> x.served, reply |-> x.reply,
         access |-> s.access /\ x.served = Method(operation)]

\* "served", "reply" and "access" say what happened; Execute does not return them.
Result(operation, x, s) ==
    LET failed == x.reply \in {"unsent", "lost"}
        status == Status(x.reply, s)
    IN  [operation |-> operation, failed |-> failed,
         error  |-> ~failed /\ status # "2xx",
         denied |-> ~failed /\ Denied(status, Rows(x.reply, s)),
         served |-> x.served, reply |-> x.reply,
         access |-> s.access /\ x.served = Method(operation)]

Execute ==
    /\ Len(results) < Len(ops)
    /\ LET operation == ops[Len(results) + 1]
       IN  \E x \in Exchanges(Method(operation)) : \E s \in Serve(x.served) :
              /\ row' = s.after
              /\ results' = Append(results, Result(operation, x, s))
    /\ UNCHANGED <<world, published>>

\* Mutant: whatever the endpoint answers is fine.
PublishAnyStatus ==
    /\ Len(results) = Len(ops) /\ published = Unpublished
    /\ \E x \in Exchanges("POST") :
          published' = [answer |-> IF x.reply \in {"unsent", "lost"} THEN "error" ELSE "nil",
                        served |-> x.served, reply |-> x.reply]
    /\ UNCHANGED <<world, row, results>>

Publish ==
    /\ Len(results) = Len(ops) /\ published = Unpublished
    /\ \E x \in Exchanges("POST") :
          published' = [answer |-> IF x.reply \in {"answer", "moved", "garbled"} THEN "nil" ELSE "error",
                        served |-> x.served, reply |-> x.reply]
    /\ UNCHANGED <<world, row, results>>

Finished == published # Unpublished /\ UNCHANGED vars

Next == Execute \/ Publish \/ Finished

Spec == Init /\ [][Next]_vars

-----------------------------------------------------------------------------
(***************************************************************************)
(* Where a denial over HTTP says nothing about the policies: 401 and 403   *)
(* have other causes, a body may not be readable, a redirect turns a write *)
(* into a read, a DELETE never returns rows, and an INSERT that has to     *)
(* return its row needs to see it.                                         *)
(***************************************************************************)
Blind(r) ==
    \/ r.reply \in {"refused", "garbled"}
    \/ r.served # Method(r.operation)
    \/ r.operation = "delete"
    \/ r.operation = "insert" /\ hidden

\* An operation that may have cost the row, and did not say that it left it alone.
Spoils(r) == r.operation \in {"update", "delete"} /\ (~r.denied \/ Blind(r))

\* A denial is earned: the policies refuse the operation, or the denial is blind,
\* or an earlier update or delete was not denied, or was so blindly, and the row is
\* not what it was (client.go:82-96).
DenialIsEarned ==
    \A i \in 1 .. Len(results) :
        results[i].denied /\ results[i].operation \in exposed =>
            Blind(results[i]) \/ \E j \in 1 .. i - 1 : Spoils(results[j])

\* What took effect is not denied, except blindly: also on a row an earlier
\* operation has rewritten (client.go:82-96).
EffectsAreSeen ==
    \A i \in 1 .. Len(results) : results[i].access => ~results[i].denied \/ Blind(results[i])

\* An operation that is reported as carried out, with no error, was carried out.  A
\* redirect turns a write into a read, whose rows then pass for rows written; but
\* that takes a row the adversary may read, or one an earlier operation may have
\* rewritten (client.go:75-78, 82-96).
AccessIsReal ==
    \A i \in 1 .. Len(results) :
        LET r == results[i]
        IN  ~r.denied /\ ~r.error /\ ~r.failed =>
                \/ r.access
                \/ /\ r.reply = "moved" /\ r.operation # "select"
                   /\ "select" \in exposed \/ \E j \in 1 .. i - 1 : Spoils(results[j])

\* A report Publish says is published reached the endpoint, unless the endpoint has
\* moved: the request that is repeated there has no report in it
\* (publish/http.go:38-47).
PublishedIsReceived ==
    published.answer = "nil" => published.served = "POST" \/ published.reply = "moved"

\* Evidence "records the observable outcome of one adversarial query"
\* (types.go:124), and docs/architecture.md:93 has "DELETE: affects zero owner rows"
\* for a denial: a delete that took effect is not denied (client.go:70-73, 87-94).
DeletesAreSeen ==
    \A i \in 1 .. Len(results) :
        results[i].operation = "delete" /\ results[i].access => ~results[i].denied
=============================================================================
