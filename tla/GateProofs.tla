----------------------------- MODULE GateProofs -----------------------------
(***************************************************************************)
(* Proofs about Gate for all profiles, catalogs and configurations, and    *)
(* for any number of changes by other sessions.                            *)
(***************************************************************************)
EXTENDS Gate, SequenceTheorems, TLAPS

-----------------------------------------------------------------------------
(***************************************************************************)
(* The inductive invariant, in parts.                                      *)
(***************************************************************************)
Needed(b) == Len(RequiredPrivileges(p, b))

RolesUsed == {p.owner.role, p.adversary.role}

TypeOK ==
    /\ p \in Profiles /\ changes \in Nat /\ catalog \in seen
    /\ step \in {"flags", "login", "members", "table", "triggers", "rules", "privileges", "done"}
    /\ step \in {"flags", "login", "members"} => a = 0
    /\ step \in {"table", "triggers", "rules", "privileges"} => a \in Attacks(p)
    /\ step = "done" => a = Len(p.ops) + 1
    /\ step = "privileges" => q \in 1 .. Needed(a)
    /\ DOMAIN t = {"owner", "forced", "effects"}

\* The outcome is that of the findings, as they were added.
Folded ==
    /\ outcome = GateOutcome(findings)
    /\ \A f \in findings : f.severity \in {"blocked", "inconclusive"}

\* The first question that went without an answer lies behind; the description of
\* a table is not begun after it.
Before(question) ==
    /\ step = "members" => question = <<0, 0>>
    /\ step \in {"table", "done"} => question[1] < a
    /\ step = "privileges" => question[1] = a /\ question[2] \in 1 .. q - 1

Missing ==
    cut # Never(p) =>
        /\ lost /\ step \in {"members", "table", "privileges", "done"}
        /\ cut \in Nat \X Nat /\ Before(cut)
        /\ outcome = "pass" => cut = <<0, 1>> /\ a = 1

\* What is known of the table under way comes from catalogs there have been.
Described ==
    /\ step \in {"triggers", "rules"} =>
          \E c \in seen : /\ c.tables[a].available
                          /\ c.tables[a].owner = t.owner /\ c.tables[a].forced = t.forced
    /\ step = "rules" =>
          \A e \in t.effects :
              e = "trigger" /\ \E c \in seen : c.tables[a].available /\ e \in c.tables[a].effects

WasTrue(f) ==
    \/ f.code \in {"allow_write_required", "disposable_required"}
    \/ \E c \in seen : \E v \in Violations(c) : v.code = f.code /\ v.target = f.target

Justified == cut = Never(p) => \A f \in findings : WasTrue(f)

(***************************************************************************)
(* What has been seen right, once: a question each.                        *)
(***************************************************************************)
LoginFine == \E c \in seen : c.login \notin {"bypass", "unknown"}

RolesFine == \A r \in RolesUsed : r = LoginRole \/ \E c \in seen : r \in c.members

Available(b) == \E c \in seen : c.tables[b].available

OwnerFine(b) ==
    \E c \in seen : c.tables[b].available => c.tables[b].forced \/ c.tables[b].owner \notin RolesUsed

EffectFine(b, e) ==
    config.acknowledge \/ \E c \in seen : c.tables[b].available => e \notin c.tables[b].effects

PrivilegeFine(b, k) ==
    \E c \in seen : c.tables[b].available /\ RequiredPrivileges(p, b)[k] \in c.tables[b].granted

TableFine(b) ==
    /\ Available(b) /\ OwnerFine(b) /\ EffectFine(b, "trigger") /\ EffectFine(b, "rule")
    /\ \A k \in 1 .. Needed(b) : PrivilegeFine(b, k)

Seen ==
    outcome = "pass" =>
        /\ step # "flags" => config.allowWrite /\ p.disposable
        /\ step \notin {"flags", "login"} => LoginFine
        /\ step \notin {"flags", "login", "members"} => RolesFine
        /\ \A b \in Attacks(p) : b < a => TableFine(b)
        /\ step \in {"triggers", "rules"} =>
              Available(a) /\ (t.forced \/ t.owner \notin RolesUsed => OwnerFine(a))
        /\ step = "rules" /\ t.effects = {} => EffectFine(a, "trigger")
        /\ step = "privileges" =>
              /\ Available(a) /\ OwnerFine(a) /\ EffectFine(a, "trigger") /\ EffectFine(a, "rule")
              /\ \A k \in 1 .. q - 1 : PrivilegeFine(a, k)

(***************************************************************************)
(* With nobody changing the catalog: what Preflight says in one step, as   *)
(* far as the questions have come.                                         *)
(***************************************************************************)
LoginFindings ==
    LET known == Answered(<<0, 0>>, cut) /\ catalog.login # "unknown"
    IN  When(~known, Finding("login_role_unknown", "blocked", LoginRole))
        \cup When(known /\ catalog.login = "bypass",
                  Finding("login_role_bypass", "blocked", LoginRole))

OfTables(last) == UNION {TableFindings(p, catalog, cut, b) : b \in {b \in Attacks(p) : b <= last}}

\* The table under way, after that many of its privileges were asked for.
TableUpTo(last) ==
    When(~catalog.tables[a].forced /\ catalog.tables[a].owner \in RolesUsed,
         Finding("unforced_owner", "blocked", a))
    \cup When(catalog.tables[a].effects \cap {"trigger", "rule"} # {},
              Finding("external_effect_acknowledgement_required", "blocked", a))
    \cup When(\E k \in 1 .. last : ~Granted(p, catalog, cut, a, k),
              Finding("missing_privilege", "inconclusive", a))

Alone == changes = 0 /\ OfExecute

SoFar ==
    Alone =>
        /\ step \in {"flags", "login"} => findings = {}
        /\ step = "members" => findings = LoginFindings
        /\ step \in {"table", "triggers", "rules", "done"} =>
              findings = RoleFindings(p, catalog, cut, members) \cup OfTables(a - 1)
        /\ step = "privileges" =>
              findings = RoleFindings(p, catalog, cut, members) \cup OfTables(a - 1) \cup TableUpTo(q - 1)
        /\ step \in {"table", "triggers", "rules", "privileges", "done"} => members \in Listed(catalog, cut)
        /\ step \in {"triggers", "rules", "privileges"} => catalog.tables[a].available
        /\ step \in {"triggers", "rules"} =>
              t.owner = catalog.tables[a].owner /\ t.forced = catalog.tables[a].forced
        /\ step = "rules" => t.effects = catalog.tables[a].effects \cap {"trigger"}

IInv == TypeOK /\ Folded /\ Missing /\ Described /\ Justified /\ Seen /\ SoFar

-----------------------------------------------------------------------------
(***************************************************************************)
(* Profiles, and the privileges a table needs: there is always one.        *)
(***************************************************************************)
LEMMA FunctionIsSequence ==
    ASSUME NEW S, NEW n \in Nat, NEW f \in [1 .. n -> S]
    PROVE  f \in Seq(S)
OBVIOUS

LEMMA ProfileFacts ==
    ASSUME p \in Profiles
    PROVE  /\ Len(p.ops) \in Nat /\ Len(p.ops) >= 1 /\ p.disposable = TRUE
           /\ \A b \in Attacks(p) : Needed(b) \in Nat /\ Needed(b) >= 1
<1>1. IsProfile(p)
  BY ProfilesAssumption
<1>2. Len(p.ops) \in Nat /\ Len(p.ops) >= 1 /\ p.disposable = TRUE
  BY <1>1 DEF IsProfile
<1>3. ASSUME NEW b \in Attacks(p) PROVE Needed(b) \in Nat /\ Needed(b) >= 1
  <2> DEFINE owners == << <<p.owner.role, "INSERT">>, <<p.owner.role, "SELECT">> >>
             others == [j \in 1 .. Len(p.ops[b]) |-> <<p.adversary.role, Privilege(p.ops[b][j])>>]
             S == {owners[1], owners[2]} \cup {others[j] : j \in 1 .. Len(p.ops[b])}
  <2>1. p.ops[b] \in Seq(Operations)
    BY <1>1 DEF IsProfile, Attacks
  <2>2. owners \in Seq(S) /\ Len(owners) = 2
    OBVIOUS
  <2>3. others \in Seq(S) /\ Len(others) \in Nat
    <3>1. Len(p.ops[b]) \in Nat
      BY <2>1
    <3>2. \A j \in 1 .. Len(p.ops[b]) : others[j] \in S
      OBVIOUS
    <3> DEFINE n == Len(p.ops[b])
    <3> HIDE DEF S
    <3>3. others \in [1 .. n -> S]
      BY <3>2
    <3>4. others \in Seq(S)
      BY <3>1, <3>3, FunctionIsSequence
    <3>5. Len(others) = n
      BY <3>1
    <3>6. QED
      BY <3>1, <3>4, <3>5
  <2>4. Len(owners \o others) = Len(owners) + Len(others)
    BY <2>2, <2>3
  <2>5. QED
    BY <2>2, <2>3, <2>4 DEF Needed, RequiredPrivileges
<1>4. QED
  BY <1>2, <1>3

\* After a question about a table: the same table, the next one or the end.
LEMMA NextTableTypes ==
    ASSUME p \in Profiles, a \in 0 .. Len(p.ops), NextTable, UNCHANGED p
    PROVE  /\ a' = a + 1 /\ a' \in Nat
           /\ \/ step' = "table" /\ a' \in Attacks(p)
              \/ step' = "done" /\ a' = Len(p.ops) + 1
           /\ DOMAIN t' = {"owner", "forced", "effects"}
BY ProfileFacts DEF NextTable, Attacks, NoTable

\* Catalogs are only ever added to those that have been seen, by other sessions.
LEMMA WorldGrows ==
    ASSUME TypeOK, [Next]_vars
    PROVE  /\ UNCHANGED <<p, config>> /\ seen \subseteq seen' /\ catalog' \in seen'
           /\ changes' \in Nat /\ (Alone' => Alone) /\ (changes' = 0 => UNCHANGED catalog)
           /\ step # "done" \/ UNCHANGED vars
<1> USE DEF TypeOK, vars, parameters, world, result, Alone, OfExecute
<1>1. CASE Ask
  BY <1>1 DEF Ask, Flags, AskLogin, AskMembers, AskTable, AskTriggers, AskRules, AskPrivilege
<1>2. CASE Lose \/ Change
  BY <1>2 DEF Lose, Change
<1>3. CASE UNCHANGED vars
  BY <1>3
<1>4. QED
  BY <1>1, <1>2, <1>3 DEF Next, Returned

LEMMA TypesKept == ASSUME TypeOK, [Next]_vars PROVE TypeOK'
<1> USE DEF TypeOK
<1>1. p' \in Profiles /\ p' = p /\ changes' \in Nat /\ catalog' \in seen'
  BY WorldGrows
<1> DEFINE Place == /\ step \in {"flags", "login", "members", "table", "triggers", "rules", "privileges", "done"}
                    /\ step \in {"flags", "login", "members"} => a = 0
                    /\ step \in {"table", "triggers", "rules", "privileges"} => a \in Attacks(p)
                    /\ step = "done" => a = Len(p.ops) + 1
                    /\ step = "privileges" => q \in 1 .. Needed(a)
                    /\ DOMAIN t = {"owner", "forced", "effects"}
<1>2. CASE Flags \/ AskLogin
  BY <1>1, <1>2 DEF Flags, AskLogin
<1>3. ASSUME NextTable, step # "done" PROVE Place'
  BY <1>1, <1>3, NextTableTypes, ProfileFacts DEF Attacks
<1>4. CASE AskMembers
  BY <1>1, <1>3, <1>4 DEF AskMembers
<1>5. CASE AskTable
  <2>1. CASE NextTable
    BY <1>1, <1>3, <1>5, <2>1 DEF AskTable
  <2>2. CASE step' = "triggers" /\ UNCHANGED a /\ DOMAIN t' = {"owner", "forced", "effects"}
    BY <1>1, <1>5, <2>2 DEF AskTable
  <2>3. QED
    BY <1>5, <2>1, <2>2 DEF AskTable, Unavailable
<1>6. CASE AskTriggers
  <2>1. CASE NextTable
    BY <1>1, <1>3, <1>6, <2>1 DEF AskTriggers
  <2>2. CASE step' = "rules" /\ UNCHANGED a /\ DOMAIN t' = DOMAIN t
    BY <1>1, <1>6, <2>2 DEF AskTriggers
  <2>3. QED
    BY <1>6, <2>1, <2>2 DEF AskTriggers, Unavailable
<1>7. CASE AskRules
  <2>1. CASE NextTable
    BY <1>1, <1>3, <1>7, <2>1 DEF AskRules
  <2>2. CASE step' = "privileges" /\ q' = 1 /\ UNCHANGED <<a, t>>
    BY <1>1, <1>7, <2>2, ProfileFacts DEF AskRules, Needed
  <2>3. QED
    BY <1>7, <2>1, <2>2 DEF AskRules, Unavailable
<1>8. CASE AskPrivilege
  <2>1. CASE NextTable
    BY <1>1, <1>3, <1>8, <2>1 DEF AskPrivilege
  <2>2. CASE q # Needed(a) /\ q' = q + 1 /\ UNCHANGED <<step, a, t>>
    BY <1>1, <1>8, <2>2, ProfileFacts DEF AskPrivilege, Needed
  <2>3. QED
    BY <1>8, <2>1, <2>2 DEF AskPrivilege, Needed
<1>9. CASE Lose \/ Change
  BY <1>1, <1>9 DEF Lose, Change, Needed
<1>10. CASE UNCHANGED vars
  BY <1>1, <1>10 DEF vars, parameters, Needed
<1>11. QED
  BY <1>2, <1>4, <1>5, <1>6, <1>7, <1>8, <1>9, <1>10 DEF Next, Ask, Returned

-----------------------------------------------------------------------------
(***************************************************************************)
(* The outcome.  "add" folds: the same as looking at all the findings.     *)
(***************************************************************************)
LEMMA AddFolds ==
    ASSUME Folded, NEW new, Add(new), \/ \A f \in new : f.severity = "blocked"
                                      \/ \A f \in new : f.severity = "inconclusive"
    PROVE  Folded' /\ (outcome' = "pass" <=> outcome = "pass" /\ new = {})
BY DEF Folded, Add, GateOutcome

\* What a question adds, of one severity.
LEMMA QuestionsFold ==
    ASSUME Folded, Ask
    PROVE  Folded' /\ (outcome' = "pass" => outcome = "pass")
<1> USE DEF Finding, When
<1>1. CASE Flags
  BY <1>1, AddFolds DEF Flags
<1>2. CASE AskLogin
  BY <1>2, AddFolds DEF AskLogin
<1>3. CASE AskMembers
  BY <1>3, AddFolds DEF AskMembers, NotAssumable
<1>4. CASE AskTable
  BY <1>4, AddFolds DEF AskTable, Unavailable, Folded, result
<1>5. CASE AskTriggers
  BY <1>5, AddFolds DEF AskTriggers, Unavailable, Folded, result
<1>6. CASE AskRules
  BY <1>6, AddFolds DEF AskRules, Unavailable
<1>7. CASE AskPrivilege
  BY <1>7, AddFolds DEF AskPrivilege
<1>8. QED
  BY <1>1, <1>2, <1>3, <1>4, <1>5, <1>6, <1>7 DEF Ask

LEMMA FoldedKept == ASSUME Folded, [Next]_vars PROVE Folded' /\ (outcome' = "pass" => outcome = "pass")
<1>1. CASE Ask
  BY <1>1, QuestionsFold
<1>2. CASE Lose \/ Change \/ UNCHANGED vars
  BY <1>2 DEF Lose, Change, vars, result, Folded
<1>3. QED
  BY <1>1, <1>2 DEF Next, Returned

-----------------------------------------------------------------------------
(***************************************************************************)
(* Questions without an answer.  Each of them but that for the memberships *)
(* is a finding, and behind that one comes the question for a table.       *)
(***************************************************************************)
LEMMA AddShuts == ASSUME NEW new, new # {}, Add(new) PROVE outcome' # "pass"
BY DEF Add

LEMMA AddOpen == ASSUME NEW new, Add(new), outcome' = "pass" PROVE outcome = "pass" /\ new = {}
BY DEF Add

LEMMA LostAddsFinding ==
    ASSUME lost, \/ AskLogin \/ AskTable \/ AskTriggers \/ AskRules \/ AskPrivilege
    PROVE  outcome' # "pass"
<1>1. CASE AskLogin
  <2>1. Add({Finding("login_role_unknown", "blocked", LoginRole)})
    BY <1>1 DEF AskLogin
  <2>2. QED
    BY <2>1, AddShuts
<1>2. CASE AskTable \/ AskTriggers \/ AskRules
  <2>1. Add({Finding("table_unavailable", "inconclusive", a)})
    BY <1>2 DEF AskTable, AskTriggers, AskRules, Unavailable
  <2>2. QED
    BY <2>1, AddShuts
<1>3. CASE AskPrivilege
  <2>1. Add({Finding("missing_privilege", "inconclusive", a)})
    BY <1>3 DEF AskPrivilege, When
  <2>2. QED
    BY <2>1, AddShuts
<1>4. QED
  BY <1>1, <1>2, <1>3

LEMMA MissingKept == ASSUME TypeOK, Folded, Missing, [Next]_vars PROVE Missing'
<1> USE DEF Missing, Before, Never
<1>1. TypeOK' /\ p' = p /\ Len(p.ops) \in Nat /\ Len(p.ops) >= 1
  BY TypesKept, WorldGrows, ProfileFacts DEF TypeOK
<1>2. outcome' = "pass" => outcome = "pass"
  BY FoldedKept
<1>3. a \in Nat
  BY <1>1 DEF TypeOK, Attacks
<1>4. NextTable => a' = a + 1 /\ step' \in {"table", "done"}
  BY DEF NextTable
<1>5. CASE Flags
  BY <1>1, <1>5 DEF Flags, world
<1>6. CASE AskLogin
  <2>1. cut' # Never(p) => lost /\ cut' = <<0, 0>> /\ outcome' # "pass"
    BY <1>6, LostAddsFinding DEF AskLogin, Missed, TypeOK
  <2>2. QED
    BY <1>1, <1>6, <2>1 DEF AskLogin, world
<1>7. CASE AskMembers
  <2>1. a' = 1 /\ step' \in {"table", "done"} /\ lost' = lost
    BY <1>4, <1>7 DEF AskMembers, TypeOK, world
  <2>2. cut' # Never(p) => lost /\ cut' \in {<<0, 0>>, <<0, 1>>}
    BY <1>7 DEF AskMembers, Missed
  <2>3. cut' = <<0, 0>> => cut = <<0, 0>>
    BY <1>7 DEF AskMembers, Missed
  <2>4. cut' = <<0, 0>> => outcome' # "pass"
    BY <1>1, <1>2, <2>3
  <2>5. QED
    BY <1>1, <2>1, <2>2, <2>4
<1>8. CASE AskTable
  <2>1. a \in Nat /\ a >= 1 /\ lost' = lost
    BY <1>8 DEF AskTable, TypeOK, Attacks, world
  <2>2. cut' # Never(p) => /\ lost /\ cut' \in Nat \X Nat /\ cut'[1] <= a
    BY <1>8, <2>1 DEF AskTable, Missed
  <2>3. lost => NextTable /\ outcome' # "pass"
    BY <1>8, LostAddsFinding DEF AskTable, Unavailable
  <2>4. QED
    BY <1>1, <1>4, <2>1, <2>2, <2>3
<1>9. CASE AskTriggers \/ AskRules
  <2>1. a \in Nat /\ a >= 1 /\ lost' = lost
    BY <1>9 DEF AskTriggers, AskRules, TypeOK, Attacks, world
  <2>2. cut' # Never(p) => lost /\ cut' = <<a, 0>>
    BY <1>9 DEF AskTriggers, AskRules, Missed
  <2>3. lost => NextTable /\ outcome' # "pass"
    BY <1>9, LostAddsFinding DEF AskTriggers, AskRules, Unavailable
  <2>4. QED
    BY <1>1, <1>4, <2>1, <2>2, <2>3
<1>10. CASE AskPrivilege
  <2>1. a \in Nat /\ a >= 1 /\ q \in Nat /\ q >= 1 /\ lost' = lost
    BY <1>10, ProfileFacts DEF AskPrivilege, TypeOK, Attacks, world
  <2>2. cut' # Never(p) => lost /\ cut' \in Nat \X Nat /\ cut'[1] = a /\ cut'[2] \in 1 .. q
    BY <1>10, <2>1 DEF AskPrivilege, Missed
  <2>3. lost => outcome' # "pass"
    BY <1>10, LostAddsFinding
  <2>4. \/ a' = a + 1 /\ step' \in {"table", "done"}
        \/ q' = q + 1 /\ UNCHANGED <<step, a>> /\ step = "privileges"
    BY <1>4, <1>10 DEF AskPrivilege
  <2>5. QED
    BY <1>1, <2>1, <2>2, <2>3, <2>4
<1>11. CASE Lose \/ Change \/ UNCHANGED vars
  BY <1>1, <1>2, <1>11 DEF Lose, Change, vars, world, result
<1>12. QED
  BY <1>5, <1>6, <1>7, <1>8, <1>9, <1>10, <1>11 DEF Next, Ask, Returned

-----------------------------------------------------------------------------
(***************************************************************************)
(* Findings.  Each kind is put against what is wrong with one catalog.     *)
(***************************************************************************)
Charged(c, code, target) == \E v \in Violations(c) : v.code = code /\ v.target = target

LEMMA Charges ==
    ASSUME NEW c
    PROVE  /\ c.login = "bypass" => Charged(c, "login_role_bypass", LoginRole)
           /\ c.login = "unknown" => Charged(c, "login_role_unknown", LoginRole)
           /\ \A r \in RolesUsed \ (c.members \cup {LoginRole}) : Charged(c, "role_not_assumable", r)
<1> USE DEF Violations, Charged, Wrong, When
<1>1. c.login = "bypass" => Charged(c, "login_role_bypass", LoginRole)
  <2>1. c.login = "bypass" => Wrong("login_role_bypass", LoginRole, << >>) \in Violations(c)
    OBVIOUS
  <2>2. QED
    BY <2>1
<1>2. c.login = "unknown" => Charged(c, "login_role_unknown", LoginRole)
  <2>1. c.login = "unknown" => Wrong("login_role_unknown", LoginRole, << >>) \in Violations(c)
    OBVIOUS
  <2>2. QED
    BY <2>1
<1>3. ASSUME NEW r \in RolesUsed \ (c.members \cup {LoginRole})
      PROVE  Charged(c, "role_not_assumable", r)
  <2>1. Wrong("role_not_assumable", r, << >>) \in Violations(c)
    BY <1>3 DEF RolesUsed
  <2>2. QED
    BY <2>1
<1>4. QED
  BY <1>1, <1>2, <1>3

LEMMA TableCharges ==
    ASSUME NEW c, NEW b \in Attacks(p)
    PROVE  /\ ~c.tables[b].available => Charged(c, "table_unavailable", b)
           /\ c.tables[b].available /\ ~c.tables[b].forced /\ c.tables[b].owner \in RolesUsed
                 => Charged(c, "unforced_owner", b)
           /\ c.tables[b].available /\ c.tables[b].effects \cap {"trigger", "rule"} # {} /\ ~config.acknowledge
                 => Charged(c, "external_effect_acknowledgement_required", b)
           /\ \A k \in 1 .. Needed(b) :
                 ~c.tables[b].available \/ RequiredPrivileges(p, b)[k] \notin c.tables[b].granted
                    => Charged(c, "missing_privilege", b)
<1>1. ASSUME NEW v \in WrongTable(c, b) \cup Lacking(c, b) PROVE v \in Violations(c)
  BY DEF Violations
<1>2. ~c.tables[b].available => Charged(c, "table_unavailable", b)
  <2>1. ~c.tables[b].available => Wrong("table_unavailable", b, << >>) \in WrongTable(c, b)
    BY DEF WrongTable
  <2>2. QED
    BY <1>1, <2>1 DEF Wrong, Charged
<1>3. c.tables[b].available /\ ~c.tables[b].forced /\ c.tables[b].owner \in RolesUsed
         => Charged(c, "unforced_owner", b)
  <2>1. c.tables[b].available /\ ~c.tables[b].forced /\ c.tables[b].owner \in RolesUsed
           => Wrong("unforced_owner", b, << >>) \in WrongTable(c, b)
    BY DEF WrongTable, When, RolesUsed
  <2>2. QED
    BY <1>1, <2>1 DEF Wrong, Charged
<1>4. ASSUME c.tables[b].available, ~config.acknowledge, c.tables[b].effects \cap {"trigger", "rule"} # {}
      PROVE  Charged(c, "external_effect_acknowledgement_required", b)
  <2>1. PICK e \in c.tables[b].effects \cap {"trigger", "rule"} : TRUE
    BY <1>4
  <2>2. Wrong("external_effect_acknowledgement_required", b, e) \in WrongTable(c, b)
    BY <1>4, <2>1 DEF WrongTable
  <2>3. QED
    BY <1>1, <2>2 DEF Wrong, Charged
<1>5. ASSUME NEW k \in 1 .. Needed(b),
             ~c.tables[b].available \/ RequiredPrivileges(p, b)[k] \notin c.tables[b].granted
      PROVE  Charged(c, "missing_privilege", b)
  <2>1. Wrong("missing_privilege", b, RequiredPrivileges(p, b)[k]) \in Lacking(c, b)
    BY <1>5 DEF Lacking, Needed
  <2>2. QED
    BY <1>1, <2>1 DEF Wrong, Charged
<1>6. QED
  BY <1>2, <1>3, <1>4, <1>5

LEMMA DescribedKept == ASSUME TypeOK, Described, [Next]_vars PROVE Described'
<1> USE DEF Described, TypeOK
<1>1. seen \subseteq seen'
  BY WorldGrows
<1>2. ASSUME NextTable PROVE step' \notin {"triggers", "rules"}
  BY <1>2 DEF NextTable
<1>3. CASE AskTable
  <2>1. CASE NextTable
    BY <1>2, <2>1
  <2>2. CASE /\ step' = "triggers" /\ UNCHANGED a /\ catalog.tables[a].available
             /\ t' = [owner |-> catalog.tables[a].owner, forced |-> catalog.tables[a].forced,
                      effects |-> {}]
    BY <1>1, <2>2
  <2>3. QED
    BY <1>3, <2>1, <2>2 DEF AskTable, Unavailable
<1>4. CASE AskTriggers
  <2>1. CASE NextTable
    BY <1>2, <2>1
  <2>2. CASE step' = "rules" /\ UNCHANGED a /\ t' = [t EXCEPT !.effects = Present("trigger")]
    <3>1. t'.owner = t.owner /\ t'.forced = t.forced /\ t'.effects = Present("trigger")
      BY <2>2
    <3>2. QED
      BY <1>1, <1>4, <2>2, <3>1 DEF AskTriggers, Present
  <2>3. QED
    BY <1>4, <2>1, <2>2 DEF AskTriggers, Unavailable
<1>5. CASE Flags \/ AskLogin \/ AskMembers \/ AskRules \/ AskPrivilege
  BY <1>2, <1>5 DEF Flags, AskLogin, AskMembers, AskRules, AskPrivilege, Unavailable
<1>6. CASE Lose \/ Change \/ UNCHANGED vars
  BY <1>1, <1>6 DEF Lose, Change, vars
<1>7. QED
  BY <1>3, <1>4, <1>5, <1>6 DEF Next, Ask, Returned

\* The findings a question adds are of something that is or was wrong.
LEMMA JustifiedBy ==
    ASSUME TypeOK, Justified, cut = Never(p), [Next]_vars, NEW new, Add(new),
           \A f \in new : \/ f.code \in {"allow_write_required", "disposable_required"}
                          \/ \E c \in seen : Charged(c, f.code, f.target)
    PROVE  Justified'
<1>1. UNCHANGED <<p, config>> /\ seen \subseteq seen'
  BY WorldGrows
<1>2. \A c : Violations(c)' = Violations(c)
  BY <1>1 DEF Violations, WrongTable, Lacking
<1>3. \A f \in findings \cup new : WasTrue(f)
  BY DEF Justified, WasTrue, Charged
<1>4. \A f \in findings' : WasTrue(f)'
  BY <1>1, <1>2, <1>3 DEF WasTrue, Add
<1>5. QED
  BY <1>4 DEF Justified

\* As long as all questions were answered, the connection was there for them.
LEMMA AnsweredHere ==
    ASSUME TypeOK, Ask, cut' = Never(p)
    PROVE  cut = Never(p) /\ (step # "flags" => ~lost)
<1>1. Len(p.ops) \in Nat
  BY ProfileFacts DEF TypeOK
<1>2. a \in 0 .. Len(p.ops)
  BY <1>1 DEF TypeOK, Attacks, Ask, Flags, AskLogin, AskMembers, AskTable, AskTriggers, AskRules, AskPrivilege
<1>3. /\ <<0, 0>> # Never(p) /\ <<0, 1>> # Never(p) /\ <<a, 0>> # Never(p) /\ <<a, q>> # Never(p)
  BY <1>1, <1>2 DEF Never
<1>4. ASSUME NEW question, question # Never(p), Missed(question)
      PROVE  cut = Never(p) /\ ~lost
  BY <1>4 DEF Missed
<1>5. CASE Flags
  BY <1>5 DEF Flags
<1>6. CASE ~Flags
  BY <1>3, <1>4, <1>6 DEF Ask, AskLogin, AskMembers, AskTable, AskTriggers, AskRules, AskPrivilege
<1>7. QED
  BY <1>5, <1>6

LEMMA JustifiedKept == ASSUME TypeOK, Described, Justified, [Next]_vars PROVE Justified'
<1>1. /\ UNCHANGED <<p, config>> /\ seen \subseteq seen' /\ Never(p)' = Never(p)
      /\ \A c : Violations(c)' = Violations(c)
  BY WorldGrows DEF Violations, WrongTable, Lacking, Never
<1>2. CASE UNCHANGED <<findings, cut>>
  BY <1>1, <1>2 DEF Justified, WasTrue
<1>3. CASE cut' # Never(p)
  BY <1>1, <1>3 DEF Justified
<1>4. ASSUME Ask, cut' = Never(p) PROVE Justified'
  <2>1. cut = Never(p) /\ (step # "flags" => ~lost) /\ catalog \in seen
    BY <1>4, AnsweredHere DEF TypeOK
  <2> USE DEF Finding
  <2>2. CASE Flags
    BY <1>4, <2>1, <2>2, JustifiedBy DEF Flags, When
  <2>3. CASE AskLogin
    BY <1>4, <2>1, <2>3, JustifiedBy, Charges DEF AskLogin, When
  <2>4. CASE AskMembers
    <3>1. members' = catalog.members /\ Add(NotAssumable(members'))
      BY <2>1, <2>4 DEF AskMembers
    <3>2. \A f \in NotAssumable(members') : Charged(catalog, f.code, f.target)
      BY <3>1, Charges DEF NotAssumable, RolesUsed
    <3>3. QED
      BY <1>4, <2>1, <3>1, <3>2, JustifiedBy
  <2>5. ASSUME a \in Attacks(p), \E c \in seen : ~c.tables[a].available, Unavailable
        PROVE  Justified'
    <3>1. Add({Finding("table_unavailable", "inconclusive", a)})
      BY <2>5 DEF Unavailable
    <3>2. \E c \in seen : Charged(c, "table_unavailable", a)
      BY <2>5, TableCharges
    <3>3. QED
      BY <1>4, <2>1, <3>1, <3>2, JustifiedBy
  <2>6. CASE AskTable \/ AskTriggers
    BY <1>1, <1>2, <2>1, <2>5, <2>6, <1>4 DEF AskTable, AskTriggers, TypeOK, result
  <2>7. CASE AskRules
    <3> DEFINE new == When(~t.forced /\ t.owner \in {p.owner.role, p.adversary.role},
                           Finding("unforced_owner", "blocked", a))
                      \cup When(t.effects \cup Present("rule") # {} /\ ~config.acknowledge,
                                Finding("external_effect_acknowledgement_required", "blocked", a))
    <3>1. a \in Attacks(p) /\ Add(new) /\ step = "rules"
      BY <2>1, <2>7 DEF AskRules, TypeOK
    <3>2. ~t.forced /\ t.owner \in RolesUsed => \E c \in seen : Charged(c, "unforced_owner", a)
      BY <3>1, TableCharges DEF Described
    <3>3. ASSUME t.effects \cup Present("rule") # {}, ~config.acknowledge
          PROVE  \E c \in seen : Charged(c, "external_effect_acknowledgement_required", a)
      <4>1. \E c \in seen : c.tables[a].available /\ c.tables[a].effects \cap {"trigger", "rule"} # {}
        BY <2>1, <3>1, <3>3 DEF Described, Present
      <4>2. QED
        BY <3>1, <3>3, <4>1, TableCharges
    <3>4. \A f \in new : \E c \in seen : Charged(c, f.code, f.target)
      BY <3>2, <3>3 DEF When, RolesUsed
    <3>5. QED
      BY <1>4, <2>1, <3>1, <3>4, JustifiedBy
  <2>8. CASE AskPrivilege
    <3> DEFINE new == When(lost \/ ~Allowed, Finding("missing_privilege", "inconclusive", a))
    <3>1. Add(new) /\ a \in Attacks(p) /\ q \in 1 .. Needed(a) /\ ~lost
      BY <2>1, <2>8 DEF AskPrivilege, TypeOK
    <3>2. ~Allowed => Charged(catalog, "missing_privilege", a)
      BY <3>1, TableCharges DEF Allowed
    <3>3. \A f \in new : Charged(catalog, f.code, f.target)
      BY <3>1, <3>2 DEF When
    <3>4. QED
      BY <1>4, <2>1, <3>1, <3>3, JustifiedBy
  <2>9. QED
    BY <1>4, <2>2, <2>3, <2>4, <2>6, <2>7, <2>8 DEF Ask
<1>5. CASE Lose \/ Change \/ UNCHANGED vars
  BY <1>2, <1>5 DEF Lose, Change, vars, result
<1>6. QED
  BY <1>1, <1>3, <1>4, <1>5 DEF Next, Returned

-----------------------------------------------------------------------------
(***************************************************************************)
(* A pass.  Every question that was asked has seen its fault absent once.  *)
(***************************************************************************)
LEMMA FineForGood ==
    ASSUME UNCHANGED <<p, config>>, seen \subseteq seen'
    PROVE  /\ LoginFine => LoginFine'
           /\ RolesFine => RolesFine'
           /\ \A b : /\ Needed(b)' = Needed(b)
                     /\ Available(b) => Available(b)'
                     /\ OwnerFine(b) => OwnerFine(b)'
                     /\ \A e : EffectFine(b, e) => EffectFine(b, e)'
                     /\ \A k : PrivilegeFine(b, k) => PrivilegeFine(b, k)'
                     /\ TableFine(b) => TableFine(b)'
<1>1. RolesUsed' = RolesUsed
  BY DEF RolesUsed
<1>2. /\ LoginFine => LoginFine'
      /\ RolesFine => RolesFine'
  BY <1>1 DEF LoginFine, RolesFine
<1>3. ASSUME NEW b
      PROVE  /\ Needed(b)' = Needed(b)
             /\ Available(b) => Available(b)'
             /\ OwnerFine(b) => OwnerFine(b)'
             /\ \A e : EffectFine(b, e) => EffectFine(b, e)'
             /\ \A k : PrivilegeFine(b, k) => PrivilegeFine(b, k)'
  <2>1. RequiredPrivileges(p, b)' = RequiredPrivileges(p, b)
    OBVIOUS
  <2>2. QED
    BY <1>1, <2>1 DEF Needed, Available, OwnerFine, EffectFine, PrivilegeFine
<1>4. ASSUME NEW b PROVE TableFine(b) => TableFine(b)'
  BY <1>3 DEF TableFine
<1>5. QED
  BY <1>2, <1>3, <1>4

LEMMA SeenKept == ASSUME TypeOK, Seen, [Next]_vars PROVE Seen'
<1> SUFFICES ASSUME outcome' = "pass" PROVE Seen'
  BY DEF Seen
<1>1. UNCHANGED <<p, config>> /\ seen \subseteq seen' /\ catalog \in seen /\ Attacks(p)' = Attacks(p)
  BY WorldGrows DEF TypeOK, Attacks
<1>2. a \in Nat /\ \A b \in Attacks(p) : b \in Nat
  BY ProfileFacts DEF TypeOK, Attacks
<1>3. ASSUME outcome = "pass", NextTable, config.allowWrite /\ p.disposable, LoginFine, RolesFine,
             \A b \in Attacks(p) : b <= a => TableFine(b)
      PROVE  Seen'
  <2>1. a' = a + 1 /\ step' \in {"table", "done"}
    BY <1>3 DEF NextTable
  <2>2. \A b \in Attacks(p)' : b < a' => TableFine(b)'
    BY <1>1, <1>2, <1>3, <2>1, FineForGood
  <2>3. QED
    BY <1>1, <1>3, <2>1, <2>2, FineForGood DEF Seen
<1>4. ASSUME Unavailable PROVE FALSE
  BY <1>4, AddOpen DEF Unavailable
<1>5. ASSUME outcome = "pass", UNCHANGED a
      PROVE  \A b \in Attacks(p)' : b < a' => TableFine(b)'
  BY <1>1, <1>5, FineForGood DEF Seen
<1>6. CASE Flags
  <2>1. outcome = "pass" /\ config.allowWrite /\ p.disposable
    BY <1>6, AddOpen DEF Flags, When
  <2>2. QED
    BY <1>1, <1>5, <1>6, <2>1 DEF Flags, Seen
<1>7. CASE AskLogin
  <2>1. outcome = "pass" /\ catalog.login \notin {"bypass", "unknown"}
    BY <1>7, AddOpen DEF AskLogin, When
  <2>2. LoginFine'
    BY <1>1, <2>1 DEF LoginFine
  <2>3. QED
    BY <1>1, <1>5, <1>7, <2>1, <2>2 DEF AskLogin, Seen
<1>8. CASE AskMembers
  <2>1. outcome = "pass" /\ NotAssumable(members') = {}
    BY <1>8, AddOpen DEF AskMembers
  <2>2. members' \subseteq catalog.members
    BY <1>8 DEF AskMembers
  <2>3. RolesFine
    BY <1>1, <2>1, <2>2 DEF NotAssumable, RolesFine, RolesUsed
  <2>4. a = 0 /\ \A b \in Attacks(p) : ~(b <= a)
    BY <1>8 DEF AskMembers, TypeOK, Attacks
  <2>5. QED
    BY <1>3, <1>8, <2>1, <2>3, <2>4 DEF AskMembers, Seen
<1>9. CASE AskTable
  <2>1. outcome = "pass" /\ catalog.tables[a].available /\ step' = "triggers" /\ UNCHANGED a
        /\ t' = [owner |-> catalog.tables[a].owner, forced |-> catalog.tables[a].forced,
                 effects |-> {}]
    BY <1>4, <1>9 DEF AskTable, result
  <2>2. Available(a)
    BY <1>1, <2>1 DEF Available
  <2>3. (t'.forced \/ t'.owner \notin RolesUsed) => OwnerFine(a)
    BY <1>1, <2>1 DEF OwnerFine
  <2>4. RolesUsed' = RolesUsed
    BY <1>1 DEF RolesUsed
  <2>5. QED
    BY <1>1, <1>5, <1>9, <2>1, <2>2, <2>3, <2>4, FineForGood DEF AskTable, Seen
<1>10. CASE AskTriggers
  <2>1. outcome = "pass" /\ step' = "rules" /\ UNCHANGED a /\ t' = [t EXCEPT !.effects = Present("trigger")]
    BY <1>4, <1>10 DEF AskTriggers, result
  <2>2. t'.owner = t.owner /\ t'.forced = t.forced /\ t'.effects = Present("trigger")
    BY <2>1 DEF TypeOK
  <2>3. Present("trigger") = {} => EffectFine(a, "trigger")
    BY <1>1 DEF Present, EffectFine
  <2>4. RolesUsed' = RolesUsed
    BY <1>1 DEF RolesUsed
  <2>5. QED
    BY <1>1, <1>5, <1>10, <2>1, <2>2, <2>3, <2>4, FineForGood DEF AskTriggers, Seen
<1>11. CASE AskRules
  <2>1. /\ outcome = "pass" /\ step' = "privileges" /\ UNCHANGED a /\ q' = 1
        /\ t.forced \/ t.owner \notin RolesUsed
        /\ config.acknowledge \/ t.effects \cup Present("rule") = {}
    BY <1>4, <1>11, AddOpen DEF AskRules, When, RolesUsed
  <2>2. OwnerFine(a) /\ Available(a)
    BY <1>11, <2>1 DEF AskRules, Seen
  <2>3. EffectFine(a, "trigger")
    BY <1>11, <2>1 DEF AskRules, Seen, EffectFine
  <2>4. EffectFine(a, "rule")
    BY <1>1, <2>1 DEF Present, EffectFine
  <2>5. \A k \in 1 .. q' - 1 : FALSE
    BY <2>1
  <2>6. QED
    BY <1>1, <1>5, <1>11, <2>1, <2>2, <2>3, <2>4, <2>5, FineForGood DEF AskRules, Seen
<1>12. CASE AskPrivilege
  <2>1. outcome = "pass" /\ Allowed
    BY <1>12, AddOpen DEF AskPrivilege, When
  <2>2. PrivilegeFine(a, q)
    BY <1>1, <2>1 DEF Allowed, PrivilegeFine
  <2>3. q \in 1 .. Needed(a) /\ Needed(a) \in Nat
    BY <1>12, ProfileFacts DEF AskPrivilege, TypeOK
  <2>4. \A k \in 1 .. q : PrivilegeFine(a, k)
    BY <1>12, <2>1, <2>2, <2>3 DEF AskPrivilege, Seen
  <2>5. CASE q = Needed(a)
    <3>1. TableFine(a)
      BY <1>12, <2>1, <2>4, <2>5 DEF AskPrivilege, Seen, TableFine
    <3>2. \A b \in Attacks(p) : b <= a => TableFine(b)
      BY <1>2, <2>1, <3>1 DEF Seen
    <3>3. QED
      BY <1>3, <1>12, <2>1, <2>5, <3>2 DEF AskPrivilege, Seen, Needed
  <2>6. CASE q # Needed(a)
    <3>1. q' = q + 1 /\ UNCHANGED <<step, a, t>>
      BY <1>12, <2>6 DEF AskPrivilege, Needed
    <3>2. \A k \in 1 .. q' - 1 : PrivilegeFine(a, k)'
      BY <1>1, <2>3, <2>4, <3>1, FineForGood
    <3>3. QED
      BY <1>1, <1>5, <1>12, <2>1, <3>1, <3>2, FineForGood DEF AskPrivilege, Seen
  <2>7. QED
    BY <2>5, <2>6
<1>13. CASE Lose \/ Change \/ UNCHANGED vars
  <2>1. UNCHANGED <<outcome, step, a, q, t>> /\ RolesUsed' = RolesUsed
    BY <1>1, <1>13 DEF Lose, Change, vars, result, RolesUsed
  <2>2. QED
    BY <1>1, <1>5, <2>1, FineForGood DEF Seen
<1>14. QED
  BY <1>6, <1>7, <1>8, <1>9, <1>10, <1>11, <1>12, <1>13 DEF Next, Ask, Returned

-----------------------------------------------------------------------------
(***************************************************************************)
(* The questions add up.  Where the connection dropped makes no difference *)
(* to what was answered before.                                            *)
(***************************************************************************)
AskOfTable == AskTable \/ AskTriggers \/ AskRules \/ AskPrivilege

\* A question about a table keeps the answers to those about the tables before.
LEMMA AnswersKept ==
    ASSUME TypeOK, AskOfTable, NEW b \in 0 .. a - 1, NEW k
    PROVE  Answered(<<b, k>>, cut') <=> Answered(<<b, k>>, cut)
<1>1. Len(p.ops) \in Nat /\ a \in 1 .. Len(p.ops)
  BY ProfileFacts DEF TypeOK, AskOfTable, AskTable, AskTriggers, AskRules, AskPrivilege, Attacks
<1>2. cut' = cut \/ (cut = Never(p) /\ cut' \in {<<a, 0>>, <<a, q>>})
  BY DEF AskOfTable, AskTable, AskTriggers, AskRules, AskPrivilege, Missed
<1>3. CASE cut' = cut
  BY <1>3
<1>4. CASE cut = Never(p) /\ cut' \in {<<a, 0>>, <<a, q>>}
  BY <1>1, <1>4 DEF Answered, Never
<1>5. QED
  BY <1>2, <1>3, <1>4

LEMMA FindingsKept ==
    ASSUME TypeOK, AskOfTable
    PROVE  /\ UNCHANGED <<p, config, catalog, members>>
           /\ RoleFindings(p, catalog, cut, members)' = RoleFindings(p, catalog, cut, members)
           /\ Listed(catalog, cut)' = Listed(catalog, cut)
           /\ \A b \in Attacks(p) :
                 b < a => TableFindings(p, catalog, cut', b) = TableFindings(p, catalog, cut, b)
<1>1. UNCHANGED <<p, config, catalog, members>> /\ a \in Nat /\ a >= 1
  BY DEF TypeOK, AskOfTable, AskTable, AskTriggers, AskRules, AskPrivilege, parameters, world, Attacks
<1>2. \A k : Answered(<<0, k>>, cut') <=> Answered(<<0, k>>, cut)
  BY <1>1, AnswersKept
<1>3. RoleFindings(p, catalog, cut, members)' = RoleFindings(p, catalog, cut, members)
  BY <1>1, <1>2 DEF RoleFindings
<1>4. Listed(catalog, cut)' = Listed(catalog, cut)
  <2>1. CASE cut' = cut
    BY <1>1, <2>1 DEF Listed
  <2>2. CASE cut = Never(p)
    <3>1. Answered(<<0, 1>>, cut)
      BY <1>1, <2>2, ProfileFacts DEF Answered, Never, TypeOK
    <3>2. QED
      BY <1>1, <1>2, <3>1 DEF Listed
  <2>3. QED
    BY <2>1, <2>2 DEF AskOfTable, AskTable, AskTriggers, AskRules, AskPrivilege, Missed
<1>5. ASSUME NEW b \in Attacks(p), b < a
      PROVE  TableFindings(p, catalog, cut', b) = TableFindings(p, catalog, cut, b)
  <2>1. b \in 0 .. a - 1
    BY <1>1, <1>5 DEF Attacks
  <2>2. \A k : Answered(<<b, k>>, cut') <=> Answered(<<b, k>>, cut)
    BY <2>1, AnswersKept
  <2>3. /\ Readable(catalog, cut', b) <=> Readable(catalog, cut, b)
        /\ \A k : Granted(p, catalog, cut', b, k) <=> Granted(p, catalog, cut, b, k)
    BY <2>2 DEF Readable, Granted
  <2>4. QED
    BY <2>3 DEF TableFindings
<1>6. QED
  BY <1>1, <1>3, <1>4, <1>5

\* The findings about the roles and the tables that are done with.
Earlier == RoleFindings(p, catalog, cut, members) \cup OfTables(a - 1)

LEMMA EarlierKept ==
    ASSUME TypeOK, AskOfTable
    PROVE  /\ a' = a => Earlier' = Earlier
           /\ a' = a + 1 => Earlier' = Earlier \cup TableFindings(p, catalog, cut', a)
<1> DEFINE F(b) == TableFindings(p, catalog, cut, b)
           G(b) == TableFindings(p, catalog, cut', b)
           R == RoleFindings(p, catalog, cut, members)
<1>1. a \in Attacks(p) /\ a \in Nat /\ \A b \in Attacks(p) : b \in Nat
  BY DEF TypeOK, AskOfTable, AskTable, AskTriggers, AskRules, AskPrivilege, Attacks
<1>2. /\ \A b \in Attacks(p) : b <= a - 1 => G(b) = F(b)
      /\ R' = R /\ UNCHANGED <<p, catalog, members>>
  BY <1>1, FindingsKept
<1>3. OfTables(a - 1) = UNION {F(b) : b \in {b \in Attacks(p) : b <= a - 1}}
  BY DEF OfTables
<1>4. OfTables(a - 1)' = UNION {G(b) : b \in {b \in Attacks(p) : b <= a' - 1}}
  BY <1>2 DEF OfTables, Attacks
<1>5. Earlier = R \cup OfTables(a - 1) /\ Earlier' = R \cup OfTables(a - 1)'
  BY <1>2 DEF Earlier
<1> HIDE DEF F, G, R
<1>6. CASE a' = a
  <2>1. OfTables(a - 1)' = UNION {G(b) : b \in {b \in Attacks(p) : b <= a - 1}}
    BY <1>4, <1>6
  <2>2. OfTables(a - 1)' = OfTables(a - 1)
    BY <1>2, <1>3, <2>1
  <2>3. QED
    BY <1>1, <1>5, <1>6, <2>2
<1>7. CASE a' = a + 1
  <2>1. {b \in Attacks(p) : b <= a' - 1} = {b \in Attacks(p) : b <= a - 1} \cup {a}
    <3>1. \A b \in Attacks(p) : b <= a' - 1 <=> b <= a - 1 \/ b = a
      BY <1>1, <1>7
    <3>2. QED
      BY <1>1, <3>1
  <2>2. OfTables(a - 1)' = OfTables(a - 1) \cup G(a)
    BY <1>2, <1>3, <1>4, <2>1
  <2>3. QED
    BY <1>1, <1>5, <1>7, <2>2 DEF G
<1>8. QED
  BY <1>6, <1>7

\* A table that cannot be described.
LEMMA UnavailableSoFar ==
    ASSUME TypeOK, Missing, SoFar, Alone, Alone', AskTable \/ AskTriggers \/ AskRules, Unavailable,
           lost \/ ~catalog.tables[a].available
    PROVE  SoFar'
<1>1. AskOfTable /\ a' = a + 1 /\ step' \in {"table", "done"}
  BY DEF AskOfTable, Unavailable, NextTable
<1>2. findings' = findings \cup {Finding("table_unavailable", "inconclusive", a)}
  BY DEF Unavailable, Add
<1>3. findings = Earlier /\ members \in Listed(catalog, cut)
  BY DEF SoFar, Earlier, AskTable, AskTriggers, AskRules
<1>4. lost => ~Answered(<<a, 0>>, cut')
  <2>1. Len(p.ops) \in Nat /\ a \in 1 .. Len(p.ops)
    BY ProfileFacts DEF TypeOK, AskTable, AskTriggers, AskRules, Attacks
  <2>2. lost => \/ cut' = <<a, 0>>
                \/ cut' = cut /\ cut # Never(p) /\ step = "table"
    BY DEF AskTable, AskTriggers, AskRules, Missed, Missing
  <2>3. cut # Never(p) /\ step = "table" => cut[1] \in Nat /\ cut[1] < a
    BY DEF Missing, Before
  <2>4. QED
    BY <2>1, <2>2, <2>3 DEF Answered
<1>5. TableFindings(p, catalog, cut', a) = {Finding("table_unavailable", "inconclusive", a)}
  BY <1>4 DEF TableFindings, Readable
<1>6. findings' = Earlier' /\ (members \in Listed(catalog, cut))'
  BY <1>1, <1>2, <1>3, <1>5, EarlierKept, FindingsKept
<1>7. QED
  BY <1>1, <1>6 DEF SoFar, Earlier

\* The next privilege, or the last one.
LEMMA PrivilegeSoFar ==
    ASSUME TypeOK, Missing, SoFar, Alone, Alone', AskPrivilege
    PROVE  SoFar'
<1> DEFINE last == Needed(a)
           Lacks(k) == ~Granted(p, catalog, cut', a, k)
<1>1. /\ AskOfTable /\ step = "privileges" /\ catalog.tables[a].available
      /\ findings = Earlier \cup TableUpTo(q - 1) /\ members \in Listed(catalog, cut)
  BY DEF AskOfTable, AskPrivilege, SoFar, Earlier
<1>2. /\ Len(p.ops) \in Nat /\ a \in 1 .. Len(p.ops) /\ a \in Attacks(p)
      /\ q \in 1 .. last /\ last \in Nat
  BY <1>1, ProfileFacts DEF TypeOK, Attacks
<1>3. /\ Answered(<<a, 0>>, cut') /\ (Answered(<<a, q>>, cut') <=> ~lost)
      /\ \A k \in 1 .. q - 1 : Answered(<<a, k>>, cut') <=> Answered(<<a, k>>, cut)
  <2>1. \/ cut' = Never(p) /\ cut = Never(p) /\ ~lost
        \/ cut' = <<a, q>> /\ cut = Never(p) /\ lost
        \/ cut' = cut /\ lost /\ cut[1] = a /\ cut[2] \in 1 .. q - 1
    BY <1>1 DEF AskPrivilege, Missed, Missing, Before
  <2>2. QED
    BY <1>2, <2>1 DEF Answered, Never
<1>4. /\ Lacks(q) <=> lost \/ ~Allowed
      /\ \A k \in 1 .. q - 1 : Lacks(k) <=> ~Granted(p, catalog, cut, a, k)
  BY <1>1, <1>3 DEF Granted, Allowed
<1>5. (\E k \in 1 .. q : Lacks(k)) <=>
         (lost \/ ~Allowed) \/ \E k \in 1 .. q - 1 : ~Granted(p, catalog, cut, a, k)
  <2>1. \A k : k \in 1 .. q <=> k \in 1 .. q - 1 \/ k = q
    BY <1>2
  <2>2. QED
    BY <1>4, <2>1
<1>6. findings' = findings \cup When(lost \/ ~Allowed, Finding("missing_privilege", "inconclusive", a))
  BY DEF AskPrivilege, Add
<1> DEFINE Rest == When(~catalog.tables[a].forced /\ catalog.tables[a].owner \in RolesUsed,
                        Finding("unforced_owner", "blocked", a))
                   \cup When(catalog.tables[a].effects \cap {"trigger", "rule"} # {},
                             Finding("external_effect_acknowledgement_required", "blocked", a))
           Shortage(found) == When(found, Finding("missing_privilege", "inconclusive", a))
<1>7. findings' = Earlier \cup Rest \cup Shortage(\E k \in 1 .. q : Lacks(k))
  <2>1. TableUpTo(q - 1) = Rest \cup Shortage(\E k \in 1 .. q - 1 : ~Granted(p, catalog, cut, a, k))
    BY DEF TableUpTo
  <2>2. Shortage(\E k \in 1 .. q : Lacks(k)) =
           Shortage(\E k \in 1 .. q - 1 : ~Granted(p, catalog, cut, a, k)) \cup Shortage(lost \/ ~Allowed)
    BY <1>5 DEF When
  <2>3. QED
    BY <1>1, <1>6, <2>1, <2>2
<1>8. (members \in Listed(catalog, cut))' /\ UNCHANGED <<p, config, catalog>>
  BY <1>1, FindingsKept
<1>9. CASE q = last
  <2>1. a' = a + 1 /\ step' \in {"table", "done"}
    BY <1>9 DEF AskPrivilege, NextTable, Needed
  <2>2. TableFindings(p, catalog, cut', a) = Rest \cup Shortage(\E k \in 1 .. q : Lacks(k))
    BY <1>1, <1>3, <1>9 DEF TableFindings, Readable, RolesUsed, Needed
  <2>3. findings' = Earlier'
    BY <1>1, <1>7, <2>1, <2>2, EarlierKept
  <2>4. QED
    BY <1>8, <2>1, <2>3 DEF SoFar, Earlier
<1>10. CASE q # last
  <2>1. UNCHANGED <<a, step>> /\ q' - 1 = q
    BY <1>2, <1>10 DEF AskPrivilege, Needed
  <2>2. TableUpTo(q - 1)' = Rest \cup Shortage(\E k \in 1 .. q : Lacks(k))
    BY <1>8, <2>1 DEF TableUpTo, RolesUsed
  <2>3. findings' = Earlier' \cup TableUpTo(q - 1)'
    BY <1>1, <1>7, <2>1, <2>2, EarlierKept
  <2>4. QED
    BY <1>1, <1>8, <2>1, <2>3 DEF SoFar, Earlier
<1>11. QED
  BY <1>9, <1>10

LEMMA SoFarKept == ASSUME TypeOK, Missing, SoFar, [Next]_vars PROVE SoFar'
<1> SUFFICES ASSUME Alone' PROVE SoFar'
  BY DEF SoFar
<1>1. Alone /\ UNCHANGED <<p, config, catalog>> /\ config.allowWrite /\ ~config.acknowledge
  BY WorldGrows DEF Alone, OfExecute
<1>2. p.disposable = TRUE /\ Len(p.ops) \in Nat
  BY ProfileFacts DEF TypeOK
<1>3. CASE Flags
  BY <1>1, <1>2, <1>3 DEF Flags, Add, When, SoFar
<1>4. CASE AskLogin
  <2>1. cut = Never(p) /\ findings = {} /\ step' = "members"
    BY <1>1, <1>4 DEF AskLogin, Missing, SoFar
  <2>2. Answered(<<0, 0>>, cut') <=> ~lost
    BY <1>2, <1>4, <2>1 DEF AskLogin, Missed, Answered, Never
  <2>3. findings' = LoginFindings'
    BY <1>1, <1>4, <2>1, <2>2 DEF AskLogin, Add, LoginFindings, When
  <2>4. QED
    BY <2>1, <2>3 DEF SoFar
<1>5. CASE AskMembers
  <2>1. /\ findings = LoginFindings /\ a' = 1 /\ step' \in {"table", "done"}
        /\ cut \in {Never(p), <<0, 0>>} /\ (cut # Never(p) => lost)
    BY <1>1, <1>5 DEF AskMembers, Missing, Before, SoFar, NextTable, TypeOK
  <2>2. \/ cut' = Never(p) /\ cut = Never(p) /\ ~lost
        \/ cut' = <<0, 1>> /\ cut = Never(p) /\ lost
        \/ cut' = <<0, 0>> /\ cut = <<0, 0>> /\ lost /\ cut # Never(p)
    BY <2>1, <1>5 DEF AskMembers, Missed
  <2>3. /\ Answered(<<0, 0>>, cut') <=> Answered(<<0, 0>>, cut)
        /\ Answered(<<0, 1>>, cut') <=> ~lost
    BY <1>2, <2>2 DEF Answered, Never
  <2>4. LoginFindings' = LoginFindings
    BY <1>1, <2>3 DEF LoginFindings
  <2>5. (members \in Listed(catalog, cut))'
    BY <1>1, <1>5, <2>2, <2>3 DEF AskMembers, Listed
  <2>6. RoleFindings(p, catalog, cut, members)' = LoginFindings' \cup NotAssumable(members')
    BY <1>1, <1>2 DEF RoleFindings, LoginFindings, NotAssumable, When
  <2>7. OfTables(a - 1)' = {}
    BY <2>1 DEF OfTables, Attacks
  <2>8. findings' = findings \cup NotAssumable(members')
    BY <1>5 DEF AskMembers, Add
  <2>9. findings' = RoleFindings(p, catalog, cut, members)' \cup OfTables(a - 1)'
    BY <2>1, <2>4, <2>6, <2>7, <2>8
  <2>10. QED
    BY <2>1, <2>5, <2>9 DEF SoFar
<1>6. CASE (AskTable \/ AskTriggers \/ AskRules) /\ Unavailable
  <2>1. lost \/ ~catalog.tables[a].available
    BY <1>6 DEF AskTable, AskTriggers, AskRules, Unavailable, NextTable, TypeOK, Attacks
  <2>2. QED
    BY <1>1, <1>6, <2>1, UnavailableSoFar
<1>7. ASSUME AskTable \/ AskTriggers \/ AskRules, UNCHANGED a
      PROVE  Earlier' = Earlier /\ (members \in Listed(catalog, cut))'
  BY <1>1, <1>7, EarlierKept, FindingsKept DEF AskOfTable, SoFar, AskTable, AskTriggers, AskRules
<1>8. CASE AskTable /\ ~Unavailable
  <2>1. /\ catalog.tables[a].available /\ step' = "triggers" /\ UNCHANGED <<a, result>>
        /\ t' = [owner |-> catalog.tables[a].owner, forced |-> catalog.tables[a].forced,
                 effects |-> {}]
        /\ findings = Earlier
    BY <1>1, <1>8 DEF AskTable, SoFar, Earlier
  <2>2. QED
    BY <1>1, <1>7, <1>8, <2>1 DEF SoFar, Earlier, result
<1>9. CASE AskTriggers /\ ~Unavailable
  <2>1. /\ step' = "rules" /\ UNCHANGED <<a, result>> /\ findings = Earlier
        /\ t' = [t EXCEPT !.effects = Present("trigger")]
        /\ catalog.tables[a].available
        /\ t.owner = catalog.tables[a].owner /\ t.forced = catalog.tables[a].forced
    BY <1>1, <1>9 DEF AskTriggers, SoFar, Earlier
  <2>2. t'.owner = t.owner /\ t'.forced = t.forced /\ t'.effects = catalog.tables[a].effects \cap {"trigger"}
    BY <2>1 DEF TypeOK, Present
  <2>3. QED
    BY <1>1, <1>7, <1>9, <2>1, <2>2 DEF SoFar, Earlier, result
<1>10. CASE AskRules /\ ~Unavailable
  <2> DEFINE new == When(~t.forced /\ t.owner \in {p.owner.role, p.adversary.role},
                         Finding("unforced_owner", "blocked", a))
                    \cup When(t.effects \cup Present("rule") # {} /\ ~config.acknowledge,
                              Finding("external_effect_acknowledgement_required", "blocked", a))
  <2>1. /\ step' = "privileges" /\ UNCHANGED a /\ q' = 1 /\ Add(new) /\ findings = Earlier
        /\ catalog.tables[a].available /\ t.effects = catalog.tables[a].effects \cap {"trigger"}
        /\ t.owner = catalog.tables[a].owner /\ t.forced = catalog.tables[a].forced
    BY <1>1, <1>10 DEF AskRules, SoFar, Earlier
  <2>2. t.effects \cup Present("rule") # {} <=> catalog.tables[a].effects \cap {"trigger", "rule"} # {}
    BY <2>1 DEF Present
  <2>3. ~ \E k \in 1 .. q' - 1 : ~Granted(p, catalog, cut', a, k)
    BY <2>1
  <2>4. TableUpTo(q - 1)' = new
    BY <1>1, <2>1, <2>2, <2>3 DEF TableUpTo, RolesUsed, When
  <2>5. findings' = Earlier' \cup TableUpTo(q - 1)'
    BY <1>7, <1>10, <2>1, <2>4 DEF Add
  <2>6. QED
    BY <1>1, <1>7, <1>10, <2>1, <2>5 DEF SoFar, Earlier
<1>11. CASE AskPrivilege
  BY <1>1, <1>11, PrivilegeSoFar
<1>12. CASE Lose \/ Change \/ UNCHANGED vars
  <2>1. UNCHANGED <<p, catalog, step, a, q, members, t, findings, cut>>
    BY <1>1, <1>12 DEF Lose, Change, vars, result
  <2>2. QED
    <3>1. LoginFindings' = LoginFindings /\ OfTables(a - 1)' = OfTables(a - 1)
      BY <2>1 DEF LoginFindings, OfTables
    <3>2. TableUpTo(q - 1)' = TableUpTo(q - 1)
      BY <2>1 DEF TableUpTo, RolesUsed
    <3>3. /\ RoleFindings(p, catalog, cut, members)' = RoleFindings(p, catalog, cut, members)
          /\ Listed(catalog, cut)' = Listed(catalog, cut)
      BY <2>1
    <3>4. QED
      BY <1>1, <2>1, <3>1, <3>2, <3>3 DEF SoFar
<1>13. QED
  BY <1>3, <1>4, <1>5, <1>6, <1>8, <1>9, <1>10, <1>11, <1>12 DEF Next, Ask, Returned

-----------------------------------------------------------------------------
(***************************************************************************)
(* The invariant, and what follows from it.                                *)
(***************************************************************************)
LEMMA InitEstablishes == Init => IInv
<1> SUFFICES ASSUME Init PROVE IInv
  OBVIOUS
<1> USE DEF Init
<1>1. TypeOK
  BY DEF TypeOK, NoTable
<1>2. Folded
  BY DEF Folded, GateOutcome
<1>3. Missing /\ Described /\ Justified
  BY DEF Missing, Described, Justified
<1>4. Seen
  BY DEF Seen, Attacks
<1>5. SoFar
  BY DEF SoFar
<1>6. QED
  BY <1>1, <1>2, <1>3, <1>4, <1>5 DEF IInv

LEMMA StepKeeps == IInv /\ [Next]_vars => IInv'
BY TypesKept, FoldedKept, MissingKept, DescribedKept, JustifiedKept, SeenKept, SoFarKept DEF IInv

\* How far the questions have come, what their answers added up to and what has
\* been seen right holds at every moment of the check (gate.go:19-75).
THEOREM InvariantHolds == Spec => []IInv
  BY InitEstablishes, StepKeeps, PTL DEF Spec

\* For all profiles, catalogs and changes: a question without an answer closes
\* the gate (gate.go:35-72).
THEOREM NoAnswerNoPass == Spec => []UnansweredNeverPasses
<1>1. IInv => UnansweredNeverPasses
  BY ProfileFacts DEF IInv, TypeOK, Missing, UnansweredNeverPasses
<1>2. QED
  BY <1>1, InvariantHolds, PTL

\* For all profiles, catalogs and changes: as long as every question is answered,
\* what the gate complains about was wrong at a moment of the check
\* (gate.go:51-72).
THEOREM FindingsWereTrueHolds == Spec => []FindingsWereTrue
<1>1. IInv => FindingsWereTrue
  BY DEF IInv, Justified, WasTrue, FindingsWereTrue
<1>2. QED
  BY <1>1, InvariantHolds, PTL

\* For all profiles and catalogs, wherever the connection drops: if nobody changes
\* the catalog, the questions add up to what Preflight says in one step, which is
\* how Runner describes the gate (gate.go:19-75).
THEOREM QuestionsAddUp == Spec => []OneStep
<1>1. IInv => OneStep
  <2> SUFFICES ASSUME IInv, step = "done", Alone
               PROVE  /\ findings = PreflightFindings(p, catalog, cut, members)
                      /\ outcome = GateOutcome(findings)
                      /\ members \in Listed(catalog, cut)
    BY DEF OneStep, Alone
  <2>1. /\ findings = RoleFindings(p, catalog, cut, members) \cup OfTables(a - 1)
        /\ members \in Listed(catalog, cut)
    BY DEF IInv, SoFar
  <2>2. {b \in Attacks(p) : b <= a - 1} = Attacks(p)
    BY ProfileFacts DEF IInv, TypeOK, Attacks
  <2>3. findings = PreflightFindings(p, catalog, cut, members)
    BY <2>1, <2>2 DEF OfTables, PreflightFindings
  <2>4. QED
    BY <2>1, <2>3 DEF IInv, Folded
<1>2. QED
  BY <1>1, InvariantHolds, PTL

\* What is wrong with a catalog is one of these.
LEMMA Violated ==
    ASSUME NEW c, NEW v \in Violations(c)
    PROVE  \/ v = Wrong("login_role_bypass", LoginRole, << >>) /\ c.login = "bypass"
           \/ v = Wrong("login_role_unknown", LoginRole, << >>) /\ c.login = "unknown"
           \/ \E r \in RolesUsed \ (c.members \cup {LoginRole}) :
                 v = Wrong("role_not_assumable", r, << >>)
           \/ \E b \in Attacks(p) : v \in WrongTable(c, b) \cup Lacking(c, b)
BY DEF Violations, When, RolesUsed

LEMMA ViolatedTable ==
    ASSUME NEW c, NEW b \in Attacks(p), NEW v \in WrongTable(c, b) \cup Lacking(c, b)
    PROVE  \/ v = Wrong("table_unavailable", b, << >>) /\ ~c.tables[b].available
           \/ /\ v = Wrong("unforced_owner", b, << >>) /\ c.tables[b].available
              /\ ~c.tables[b].forced /\ c.tables[b].owner \in RolesUsed
           \/ \E e \in c.tables[b].effects \cap {"trigger", "rule"} :
                 /\ v = Wrong("external_effect_acknowledgement_required", b, e)
                 /\ ~config.acknowledge /\ c.tables[b].available
           \/ \E k \in 1 .. Needed(b) :
                 /\ v = Wrong("missing_privilege", b, RequiredPrivileges(p, b)[k])
                 /\ ~c.tables[b].available \/ RequiredPrivileges(p, b)[k] \notin c.tables[b].granted
BY DEF WrongTable, Lacking, When, RolesUsed, Needed

\* Both at once, by the code of the violation.
LEMMA ViolationSays ==
    ASSUME NEW c, NEW v \in Violations(c)
    PROVE  /\ v.code = "login_role_bypass" => c.login = "bypass"
           /\ v.code = "login_role_unknown" => c.login = "unknown"
           /\ v.code = "role_not_assumable" => v.target \notin c.members \cup {LoginRole}
           /\ v.code = "table_unavailable" => ~c.tables[v.target].available
           /\ v.code = "unforced_owner" =>
                 /\ c.tables[v.target].available /\ ~c.tables[v.target].forced
                 /\ c.tables[v.target].owner \in RolesUsed
           /\ v.code = "external_effect_acknowledgement_required" =>
                 ~config.acknowledge /\ c.tables[v.target].available /\ v.detail \in c.tables[v.target].effects
           /\ v.code = "missing_privilege" =>
                 ~c.tables[v.target].available \/ v.detail \notin c.tables[v.target].granted
<1>1. CASE \E b \in Attacks(p) : v \in WrongTable(c, b) \cup Lacking(c, b)
  <2>1. PICK b \in Attacks(p) : v \in WrongTable(c, b) \cup Lacking(c, b)
    BY <1>1
  <2>2. QED
    BY <2>1, ViolatedTable DEF Wrong
<1>2. CASE ~ \E b \in Attacks(p) : v \in WrongTable(c, b) \cup Lacking(c, b)
  BY <1>2, Violated DEF Wrong
<1>3. QED
  BY <1>1, <1>2

\* For all profiles, catalogs and changes: a pass means that each fault the
\* catalog has was seen absent at a moment of the check (gate.go:35-72,
\* runner.go:28).
THEOREM PassSawEverythingHolds == Spec => []PassSawEverything
<1>1. IInv => PassSawEverything
  <2> SUFFICES ASSUME IInv, step = "done", outcome = "pass"
               PROVE  /\ config.allowWrite /\ p.disposable
                      /\ \A v \in Violations(catalog) : \E c \in seen : v \notin Violations(c)
    BY DEF PassSawEverything
  <2>1. config.allowWrite /\ p.disposable /\ LoginFine /\ RolesFine
    BY DEF IInv, Seen
  <2>2. \A b \in Attacks(p) : TableFine(b)
    BY ProfileFacts DEF IInv, Seen, TypeOK, Attacks
  <2>3. ASSUME NEW v \in Violations(catalog),
               ~ \E b \in Attacks(p) : v \in WrongTable(catalog, b) \cup Lacking(catalog, b)
        PROVE  \E c \in seen : v \notin Violations(c)
    <3>1. CASE v.code \in {"login_role_bypass", "login_role_unknown"}
      BY <2>1, <3>1, ViolationSays DEF LoginFine
    <3>2. CASE \E r \in RolesUsed \ {LoginRole} : v = Wrong("role_not_assumable", r, << >>)
      <4>1. PICK r \in RolesUsed \ {LoginRole} : v.code = "role_not_assumable" /\ v.target = r
        BY <3>2 DEF Wrong
      <4>2. PICK c \in seen : r \in c.members
        BY <2>1, <4>1 DEF RolesFine
      <4>3. QED
        BY <4>1, <4>2, ViolationSays
    <3>3. QED
      BY <2>3, <3>1, <3>2, Violated DEF Wrong
  <2>4. ASSUME NEW v \in Violations(catalog), NEW b \in Attacks(p),
               v \in WrongTable(catalog, b) \cup Lacking(catalog, b)
        PROVE  \E c \in seen : v \notin Violations(c)
    <3>1. TableFine(b) /\ v.target = b
      BY <2>2, <2>4, ViolatedTable DEF Wrong
    <3>2. CASE v.code = "table_unavailable"
      BY <3>1, <3>2, ViolationSays DEF TableFine, Available
    <3>3. CASE v.code = "unforced_owner"
      BY <3>1, <3>3, ViolationSays DEF TableFine, OwnerFine
    <3>4. CASE v.code = "external_effect_acknowledgement_required"
      <4>1. v.detail \in {"trigger", "rule"} /\ ~config.acknowledge
        BY <2>4, <3>4, ViolatedTable DEF Wrong
      <4>2. QED
        BY <3>1, <3>4, <4>1, ViolationSays DEF TableFine, EffectFine
    <3>5. CASE v.code = "missing_privilege"
      <4>1. PICK k \in 1 .. Needed(b) : v.detail = RequiredPrivileges(p, b)[k]
        BY <2>4, <3>5, ViolatedTable DEF Wrong
      <4>2. PICK c \in seen : c.tables[b].available /\ v.detail \in c.tables[b].granted
        BY <3>1, <4>1 DEF TableFine, PrivilegeFine
      <4>3. QED
        BY <3>1, <3>5, <4>2, ViolationSays
    <3>6. QED
      BY <2>4, <3>2, <3>3, <3>4, <3>5, ViolatedTable DEF Wrong
  <2>5. QED
    BY <2>1, <2>3, <2>4
<1>2. QED
  BY <1>1, InvariantHolds, PTL
=============================================================================
