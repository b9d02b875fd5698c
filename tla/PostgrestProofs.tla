--------------------------- MODULE PostgrestProofs ---------------------------
(***************************************************************************)
(* Proofs about Postgrest for all lists of operations, all policies and    *)
(* any selection of the faults of Http.                                    *)
(***************************************************************************)
EXTENDS Postgrest, TLAPS

-----------------------------------------------------------------------------
(***************************************************************************)
(* The inductive invariant, in parts.                                      *)
(***************************************************************************)
Methods == {"GET", "PATCH", "DELETE", "POST"}

Replies == {"answer", "unsent", "lost", "moved", "refused", "error", "garbled"}

Outcome ==
    [operation : Operations, failed : BOOLEAN, error : BOOLEAN, denied : BOOLEAN,
     served : Methods \cup {None}, reply : Replies, access : BOOLEAN]

TypeOK ==
    /\ ops \in Seq(Operations) /\ exposed \subseteq Operations
    /\ hidden \in BOOLEAN /\ foreign \in BOOLEAN
    /\ row \in {"there", "changed", "gone"}
    /\ results \in Seq(Outcome) /\ Len(results) <= Len(ops)

\* If the row is not what it was, one of the operations so far is to blame.
Blame == row # "there" => \E j \in 1 .. Len(results) : Spoils(results[j])

IInv ==
    TypeOK /\ Blame /\ DenialIsEarned /\ EffectsAreSeen /\ AccessIsReal /\ PublishedIsReceived

-----------------------------------------------------------------------------
(***************************************************************************)
(* One exchange: what reaches the service, and what comes back.            *)
(***************************************************************************)
LEMMA ExchangeFacts ==
    ASSUME NEW method, NEW x \in Exchanges(method)
    PROVE  /\ x = Exchange(x.served, x.reply) /\ x.reply \in Replies
           /\ x.served \in {method, None, "GET"}
           /\ x.reply \in {"answer", "garbled"} => x.served = method
           /\ x.reply \notin {"answer", "garbled", "lost", "error"} => x.served \in {None, "GET"}
           /\ x.served = None => x.reply \in {"unsent", "lost", "refused", "error"} \/ method = None
           /\ x.served = "GET" => method = "GET" \/ x.reply = "moved"
           /\ x.reply = "moved" => x.served = "GET"
BY DEF Exchanges, Exchange, Replies, None

\* A reply that reports rows reports an access, and an access that reports none was a
\* DELETE; only an update or a deletion does something to the row.
LEMMA ServeFacts ==
    ASSUME TypeOK, NEW method \in Methods \cup {None}, NEW s \in Serve(method)
    PROVE  /\ s.access \in BOOLEAN /\ s.rows \in {0, 1} /\ s.status \in {"2xx", "403", None}
           /\ s.after \in {"there", "changed", "gone"}
           /\ s.after # row => s.access /\ method \in {"PATCH", "DELETE"}
           /\ s.rows = 1 => s.access
           /\ s.access => s.status = "2xx" /\ (s.rows = 1 \/ method = "DELETE")
           /\ s.status = None => method = None
<1>0. row \in {"there", "changed", "gone"}
  BY DEF TypeOK
<1>1. CASE method = "GET"
  <2>1. s \in Reads
    BY <1>1 DEF Serve
  <2>2. PICK r \in Reach("select") : s = Reply("2xx", IF r THEN 1 ELSE 0, r, row)
    BY <2>1 DEF Reads
  <2>3. r \in BOOLEAN
    BY <2>2 DEF Reach, TypeOK
  <2> QED
    BY <1>1, <2>2, <2>3 DEF Reply, TypeOK, None
<1>2. CASE method = "PATCH"
  <2>1. s \in Updates
    BY <1>2 DEF Serve
  <2>2. PICK r \in BOOLEAN, status \in {"2xx", "403"} :
            /\ r => status = "2xx"
            /\ s = Reply(status, IF r THEN 1 ELSE 0, r, IF r THEN "changed" ELSE row)
    BY <2>1 DEF Updates, Body, Represented
  <2> QED
    BY <1>2, <1>0, <2>2 DEF Reply, None
<1>3. CASE method = "DELETE"
  <2>1. s \in Deletes
    BY <1>3 DEF Serve
  <2>2. PICK r \in BOOLEAN : s = Reply("2xx", 0, r, IF r THEN "gone" ELSE row)
    BY <2>1 DEF Deletes, Body, Represented
  <2> QED
    BY <1>3, <1>0, <2>2 DEF Reply, None
<1>4. CASE method = "POST"
  <2>1. s \in Inserts
    BY <1>4 DEF Serve
  <2>2. PICK r \in BOOLEAN :
            s = Reply(IF r THEN "2xx" ELSE "403", IF r THEN 1 ELSE 0, r, row)
    BY <2>1 DEF Inserts, Body, Represented
  <2> QED
    BY <1>4, <1>0, <2>2 DEF Reply, None
<1>5. CASE method = None
  <2>1. s = Reply(None, 0, FALSE, row)
    BY <1>5 DEF Serve, NoReply, None
  <2> QED
    BY <1>5, <2>1 DEF Reply, TypeOK
<1> QED
  BY <1>1, <1>2, <1>3, <1>4, <1>5 DEF Methods

\* A row that is what it was is returned only to those who may read it.
LEMMA ReadIsAllowed ==
    ASSUME row = "there", NEW s \in Serve("GET"), s.rows = 1
    PROVE  "select" \in exposed
<1>1. PICK r \in Reach("select") : s = Reply("2xx", IF r THEN 1 ELSE 0, r, row)
  BY DEF Serve, Reads
<1> QED
  BY <1>1 DEF Reach, Reply

\* What the policies let through leaves a trace, as long as the row is what it was.
LEMMA ExposedIsServed ==
    ASSUME TypeOK, row = "there", NEW operation \in exposed, operation # "delete",
           operation = "insert" => ~hidden,
           NEW s \in Serve(Method(operation))
    PROVE  s.status = "2xx" /\ s.rows = 1
<1>1. CASE operation = "select"
  BY <1>1 DEF Serve, Method, Reads, Reach, Reply
<1>2. CASE operation = "update"
  BY <1>2 DEF Serve, Method, Updates, Reach, Reply, Body, Represented
<1>3. CASE operation = "insert"
  BY <1>3 DEF Serve, Method, Inserts, Reply, Body, Represented
<1> QED
  BY <1>1, <1>2, <1>3 DEF TypeOK, Operations

LEMMA MethodFacts ==
    ASSUME NEW operation \in Operations
    PROVE  /\ Method(operation) \in Methods /\ Method(operation) # None
           /\ Method(operation) = "DELETE" <=> operation = "delete"
           /\ Method(operation) = "PATCH" <=> operation = "update"
BY DEF Operations, Method, Methods, None

-----------------------------------------------------------------------------
(***************************************************************************)
(* One call of Execute.                                                    *)
(***************************************************************************)
LEMMA ResultFacts ==
    ASSUME TypeOK, NEW operation \in Operations, NEW x \in Exchanges(Method(operation)),
           NEW s \in Serve(x.served),
           NEW r, r = Result(operation, x, s)
    PROVE  /\ r \in Outcome /\ r.operation = operation /\ s.after \in {"there", "changed", "gone"}
           /\ s.after # row => Spoils(r)
           /\ r.denied /\ operation \in exposed /\ row = "there" => Blind(r)
           /\ r.access => ~r.denied \/ Blind(r)
           /\ ~r.denied /\ ~r.error /\ ~r.failed =>
                 r.access \/ (r.reply = "moved" /\ operation # "select"
                               /\ ("select" \in exposed \/ row # "there"))
<1> DEFINE status == Status(x.reply, s)
           rows   == Rows(x.reply, s)
<1>1. x.served \in Methods \cup {None}
  BY ExchangeFacts, MethodFacts DEF Methods
<1>2. s.access \in BOOLEAN /\ s.after \in {"there", "changed", "gone"}
  BY <1>1, ServeFacts
<1>3. /\ r.operation = operation /\ r.served = x.served /\ r.reply = x.reply
      /\ r.failed = (x.reply \in {"unsent", "lost"})
      /\ r.error = (~r.failed /\ status # "2xx")
      /\ r.denied = (~r.failed /\ Denied(status, rows))
      /\ r.access = (s.access /\ x.served = Method(operation))
  BY DEF Result
<1>4. r \in Outcome
  <2>1. x.reply \in Replies
    BY ExchangeFacts
  <2> QED
    BY <1>1, <1>2, <2>1 DEF Result, Outcome, Denied
<1>5. r.denied /\ x.reply = "answer" => s.status = "403" \/ s.rows = 0
  BY <1>3 DEF Denied, Status, Rows
<1>6. r.denied => x.reply \in {"answer", "moved", "refused", "garbled"}
  <2>1. x.reply \in Replies
    BY ExchangeFacts
  <2>2. x.reply = "error" => ~Denied(status, rows)
    BY DEF Denied, Status
  <2> QED
    BY <2>1, <2>2, <1>3 DEF Replies
<1>7. ASSUME s.access, x.served = Method(operation), r.denied PROVE Blind(r)
  <2>1. CASE x.reply \in {"refused", "garbled"}
    BY <2>1, <1>3 DEF Blind
  <2>2. CASE x.reply \in {"answer", "moved"}
    <3>1. s.status = "2xx" /\ (s.rows = 1 \/ x.served = "DELETE")
      BY <1>1, <1>7, ServeFacts
    <3>2. s.rows = 1 => s.status = "403" \/ s.rows = 0
      BY <2>2, <1>3, <1>7 DEF Denied, Status, Rows
    <3>3. operation = "delete"
      BY <3>1, <3>2, <1>7, MethodFacts
    <3> QED
      BY <3>3, <1>3 DEF Blind
  <2> QED
    BY <2>1, <2>2, <1>6, <1>7
<1>8. s.after # row => Spoils(r)
  <2>1. HAVE s.after # row
  <2>2. s.access /\ x.served \in {"PATCH", "DELETE"}
    BY <2>1, <1>1, ServeFacts
  <2>3. x.served = Method(operation)
    BY <2>2, ExchangeFacts DEF None
  <2>4. operation \in {"update", "delete"}
    BY <2>2, <2>3, MethodFacts
  <2> QED
    BY <2>2, <2>3, <2>4, <1>3, <1>7 DEF Spoils
<1>9. ASSUME r.denied, operation \in exposed, row = "there" PROVE Blind(r)
  <2>1. SUFFICES ASSUME x.reply \notin {"refused", "garbled"}, x.served = Method(operation),
                        operation # "delete", operation = "insert" => ~hidden
                 PROVE  FALSE
    BY <1>3 DEF Blind
  <2>2. s.status = "2xx" /\ s.rows = 1
    BY <2>1, <1>9, ExposedIsServed
  <2>3. x.reply \in {"answer", "moved"}
    BY <2>1, <1>6, <1>9
  <2>4. status = "2xx" /\ rows = 1
    BY <2>2, <2>3 DEF Status, Rows
  <2>5. ~Denied(status, rows)
    BY <2>4 DEF Denied
  <2> QED
    BY <2>5, <1>3, <1>9
<1>10. ASSUME ~r.denied, ~r.error, ~r.failed
       PROVE  r.access \/ (r.reply = "moved" /\ operation # "select"
                             /\ ("select" \in exposed \/ row # "there"))
  <2>1. status = "2xx" /\ rows # 0
    BY <1>3, <1>10 DEF Denied
  <2>2. x.reply \in {"answer", "moved"}
    <3>1. x.reply \in Replies
      BY ExchangeFacts
    <3>2. x.reply \notin {"refused", "error", "garbled"}
      BY <2>1 DEF Status, Rows
    <3>3. x.reply \notin {"unsent", "lost"}
      BY <1>3, <1>10
    <3> QED
      BY <3>1, <3>2, <3>3 DEF Replies
  <2>3. s.rows = 1
    BY <2>1, <2>2, <1>1, ServeFacts DEF Rows
  <2>4. s.access
    BY <2>3, <1>1, ServeFacts
  <2>5. CASE x.served = Method(operation)
    BY <2>4, <2>5, <1>3
  <2>6. CASE x.served # Method(operation)
    <3>1. x.reply = "moved" /\ x.served = "GET"
      BY <2>2, <2>6, ExchangeFacts
    <3>2. operation # "select"
      BY <2>6, <3>1 DEF Method
    <3>3. "select" \in exposed \/ row # "there"
      BY <2>3, <3>1, ReadIsAllowed
    <3> QED
      BY <3>1, <3>2, <3>3, <1>3
  <2> QED
    BY <2>5, <2>6
<1> QED
  BY <1>2, <1>3, <1>4, <1>7, <1>8, <1>9, <1>10

-----------------------------------------------------------------------------
(***************************************************************************)
(* The steps.                                                              *)
(***************************************************************************)
LEMMA InitHolds == Init => IInv
<1>1. SUFFICES ASSUME Init PROVE IInv
  OBVIOUS
<1>2. ops \in Seq(Operations)
  BY <1>1, ProbesAssumption DEF Init
<1>3. Len(results) = 0 /\ results \in Seq(Outcome)
  BY <1>1 DEF Init
<1>4. TypeOK /\ Blame
  BY <1>1, <1>2, <1>3 DEF Init, TypeOK, Blame
<1>5. DenialIsEarned /\ EffectsAreSeen /\ AccessIsReal
  BY <1>3 DEF DenialIsEarned, EffectsAreSeen, AccessIsReal
<1>6. PublishedIsReceived
  BY <1>1 DEF Init, Unpublished, PublishedIsReceived
<1> QED
  BY <1>4, <1>5, <1>6 DEF IInv

\* Blind and Spoils read nothing that changes but the result itself.
LEMMA ExecuteKeeps ==
    ASSUME IInv, Execute
    PROVE  IInv'
<1> USE DEF IInv
<1> DEFINE operation == ops[Len(results) + 1]
           n         == Len(results) + 1
<1>1. /\ UNCHANGED <<world, published>> /\ Len(results) < Len(ops)
      /\ ops \in Seq(Operations) /\ results \in Seq(Outcome)
  BY DEF Execute, TypeOK
<1>2. operation \in Operations
  BY <1>1
<1>3. PICK x \in Exchanges(Method(operation)) : \E s \in Serve(x.served) :
          row' = s.after /\ results' = Append(results, Result(operation, x, s))
  BY DEF Execute
<1>4. PICK s \in Serve(x.served) :
          row' = s.after /\ results' = Append(results, Result(operation, x, s))
  BY <1>3
<1> DEFINE r == Result(operation, x, s)
<1> HIDE DEF operation, r
<1>5. /\ r \in Outcome /\ r.operation = operation /\ s.after \in {"there", "changed", "gone"}
      /\ s.after # row => Spoils(r)
      /\ r.denied /\ operation \in exposed /\ row = "there" => Blind(r)
      /\ r.access => ~r.denied \/ Blind(r)
      /\ ~r.denied /\ ~r.error /\ ~r.failed =>
            r.access \/ (r.reply = "moved" /\ operation # "select"
                          /\ ("select" \in exposed \/ row # "there"))
  BY <1>2, ResultFacts DEF r
<1>6. results' = Append(results, r)
  BY <1>4 DEF r
<1>7. /\ Len(results') = n /\ results'[n] = r /\ n \in Nat /\ n >= 1
      /\ \A i \in 1 .. Len(results) : results'[i] = results[i]
      /\ results' \in Seq(Outcome) /\ Len(results) = n - 1
  BY <1>1, <1>5, <1>6
<1>8. hidden' = hidden /\ exposed' = exposed /\ ops' = ops /\ foreign' = foreign
  BY <1>1 DEF world
<1> HIDE DEF n
<1>9. \A i \in 1 .. n : i \in 1 .. Len(results) \/ i = n
  BY <1>7
<1>10. \A o : Blind(o)' <=> Blind(o)
  BY <1>8 DEF Blind
<1>11. TypeOK'
  BY <1>1, <1>4, <1>5, <1>7, <1>8 DEF TypeOK, n
<1>12. Blame'
  <2>1. CASE s.after # row
    BY <2>1, <1>5, <1>7, <1>8 DEF Blame, Spoils, Blind
  <2>2. CASE s.after = row
    <3>1. SUFFICES ASSUME row' # "there"
                   PROVE  \E j \in 1 .. Len(results') : Spoils(results[j])'
      BY DEF Blame
    <3>2. PICK j \in 1 .. Len(results) : Spoils(results[j])
      BY <2>2, <3>1, <1>4 DEF Blame
    <3>3. j \in 1 .. Len(results') /\ results'[j] = results[j]
      BY <1>7
    <3>4. Spoils(results[j])'
      BY <3>2, <3>3, <1>8 DEF Spoils, Blind
    <3> QED
      BY <3>3, <3>4
  <2> QED
    BY <2>1, <2>2
<1>13. DenialIsEarned'
  <2>1. SUFFICES ASSUME NEW i \in 1 .. n, results'[i].denied, results'[i].operation \in exposed,
                        ~Blind(results'[i])
                 PROVE  \E j \in 1 .. i - 1 : Spoils(results'[j])
    BY <1>7, <1>8 DEF DenialIsEarned, Spoils, Blind
  <2>2. CASE i \in 1 .. Len(results)
    <3>1. PICK j \in 1 .. i - 1 : Spoils(results[j])
      BY <2>1, <2>2, <1>7 DEF DenialIsEarned
    <3>2. results'[j] = results[j]
      BY <2>2, <1>7
    <3> QED
      BY <3>1, <3>2
  <2>3. CASE i = n
    <3>1. row # "there"
      BY <2>1, <2>3, <1>5, <1>7
    <3>2. PICK j \in 1 .. Len(results) : Spoils(results[j])
      BY <3>1 DEF Blame
    <3>3. j \in 1 .. i - 1 /\ results'[j] = results[j]
      BY <2>3, <1>7
    <3> QED
      BY <3>2, <3>3
  <2> QED
    BY <2>2, <2>3, <1>9
<1>14. EffectsAreSeen'
  BY <1>5, <1>7, <1>8, <1>9 DEF EffectsAreSeen, Blind
<1>15. AccessIsReal'
  <2>1. SUFFICES ASSUME NEW i \in 1 .. n, ~results'[i].denied, ~results'[i].error,
                        ~results'[i].failed, ~results'[i].access
                 PROVE  /\ results'[i].reply = "moved" /\ results'[i].operation # "select"
                        /\ "select" \in exposed \/ \E j \in 1 .. i - 1 : Spoils(results'[j])
    BY <1>7, <1>8 DEF AccessIsReal, Spoils, Blind
  <2>2. CASE i \in 1 .. Len(results)
    <3>1. results'[i] = results[i] /\ \A j \in 1 .. i - 1 : results'[j] = results[j]
      BY <2>2, <1>7
    <3> QED
      BY <2>1, <2>2, <3>1 DEF AccessIsReal
  <2>3. CASE i = n
    <3>1. /\ r.reply = "moved" /\ r.operation # "select"
          /\ "select" \in exposed \/ row # "there"
      BY <2>1, <2>3, <1>5, <1>7
    <3>2. ASSUME row # "there" PROVE \E j \in 1 .. i - 1 : Spoils(results'[j])
      <4>1. PICK j \in 1 .. Len(results) : Spoils(results[j])
        BY <3>2 DEF Blame
      <4>2. j \in 1 .. i - 1 /\ results'[j] = results[j]
        BY <2>3, <1>7
      <4> QED
        BY <4>1, <4>2
    <3> QED
      BY <2>3, <3>1, <3>2, <1>7
  <2> QED
    BY <2>2, <2>3, <1>9
<1>16. PublishedIsReceived'
  BY <1>1 DEF PublishedIsReceived
<1> QED
  BY <1>11, <1>12, <1>13, <1>14, <1>15, <1>16

LEMMA PublishKeeps ==
    ASSUME IInv, Publish
    PROVE  IInv'
<1>1. UNCHANGED <<world, row, results>>
  BY DEF Publish
<1>2. PublishedIsReceived'
  <2>1. PICK x \in Exchanges("POST") :
            published' = [answer |-> IF x.reply \in {"answer", "moved", "garbled"}
                                     THEN "nil" ELSE "error",
                          served |-> x.served, reply |-> x.reply]
    BY DEF Publish
  <2>2. x.reply \in {"answer", "garbled"} => x.served = "POST"
    BY ExchangeFacts
  <2> QED
    BY <2>1, <2>2 DEF PublishedIsReceived
<1>3. /\ UNCHANGED <<ops, exposed, hidden, foreign, row, results>>
  BY <1>1 DEF world
<1>4. TypeOK' /\ Blame'
  BY <1>3 DEF IInv, TypeOK, Blame, Spoils, Blind
<1>5. DenialIsEarned' /\ EffectsAreSeen' /\ AccessIsReal'
  BY <1>3 DEF IInv, DenialIsEarned, EffectsAreSeen, AccessIsReal, Spoils, Blind
<1> QED
  BY <1>2, <1>4, <1>5 DEF IInv

LEMMA StutterKeeps ==
    ASSUME IInv, UNCHANGED vars
    PROVE  IInv'
BY DEF vars, world, IInv, TypeOK, Blame, Spoils, Blind, DenialIsEarned, EffectsAreSeen,
       AccessIsReal, PublishedIsReceived

\* The invariant holds in every state: types, that a row which is not what it was has
\* an operation to blame for it, and the properties below (client.go:40-96).
THEOREM InvariantHolds == Spec => []IInv
<1>1. Init => IInv
  BY InitHolds
<1>2. IInv /\ [Next]_vars => IInv'
  BY ExecuteKeeps, PublishKeeps, StutterKeeps DEF Next, Finished
<1> QED
  BY <1>1, <1>2, PTL DEF Spec

\* A denial says that the policies refuse the operation, if it is not one of the blind
\* ones and no operation before it can have spoilt the row (client.go:82-96).
THEOREM DenialIsEarnedHolds == Spec => []DenialIsEarned
<1>1. IInv => DenialIsEarned
  BY DEF IInv
<1> QED
  BY <1>1, InvariantHolds, PTL

\* What took effect is denied only blindly (client.go:82-96).
THEOREM EffectsAreSeenHolds == Spec => []EffectsAreSeen
<1>1. IInv => EffectsAreSeen
  BY DEF IInv
<1> QED
  BY <1>1, InvariantHolds, PTL

\* What is reported as carried out was, or was turned into a read by a redirect, of a
\* row the adversary may read or an earlier operation may have rewritten
\* (client.go:75-78, 82-96).
THEOREM AccessIsRealHolds == Spec => []AccessIsReal
<1>1. IInv => AccessIsReal
  BY DEF IInv
<1> QED
  BY <1>1, InvariantHolds, PTL

\* A report said to be published was received, unless a redirect was followed
\* (publish/http.go:38-47).
THEOREM PublishedIsReceivedHolds == Spec => []PublishedIsReceived
<1>1. IInv => PublishedIsReceived
  BY DEF IInv
<1> QED
  BY <1>1, InvariantHolds, PTL
=============================================================================
