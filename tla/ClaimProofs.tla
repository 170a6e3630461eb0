----------------------------- MODULE ClaimProofs -----------------------------
(***************************************************************************)
(* Proofs of claims of the pure modules, for inputs of every size: that    *)
(* the message log, which the conversation and the phases keep their       *)
(* messages in, is an exact abstraction of the table; what the environment *)
(* file of an instance keeps; whom a waiting version is told to; what the  *)
(* probes, the status blocks and the verifications settle.                 *)
(***************************************************************************)
EXTENDS MessageLog, Nudge, ServeCheck, InstanceEnv, DeployMatrix, Ports, StatusBlock, TLAPS

-----------------------------------------------------------------------------
(* The message log *)

\* What a new row changes: it comes after all others.
LEMMA AfterAppend ==
  ASSUME NEW S, NEW rows \in Seq(S), NEW k \in S, NEW a, NEW b
  PROVE  After(Append(rows, k), a, b) <=> IF b = k THEN FALSE ELSE a = k \/ After(rows, a, b)
<1> DEFINE more == Append(rows, k)
           n    == Len(rows)
<1>1. /\ more \in Seq(S) /\ n \in Nat /\ DOMAIN rows = 1..n /\ DOMAIN more = 1..(n + 1)
      /\ more[n + 1] = k /\ \A i \in 1..n : more[i] = rows[i]
  OBVIOUS
<1> HIDE DEF more, n
<1>2. n + 1 \in 1..(n + 1) /\ (\A i \in 1..n : i \in 1..(n + 1) /\ i < n + 1)
      /\ \A i \in 1..(n + 1) : i \in 1..n \/ i = n + 1
  BY <1>1
<1>3. CASE b = k
  <2> SUFFICES ASSUME After(more, a, b) PROVE FALSE BY <1>3 DEF more
  <2>1. PICK i \in 1..(n + 1) : \A j \in 1..(n + 1) : more[j] = b => j < i BY <1>1 DEF After
  <2>2. n + 1 < i BY <2>1, <1>1, <1>2, <1>3
  <2> QED BY <2>2, <1>1
<1>4. CASE b # k /\ a = k
  <2>1. more[n + 1] = a /\ \A j \in 1..(n + 1) : more[j] = b => j < n + 1 BY <1>1, <1>2, <1>4
  <2> QED BY <1>1, <1>2, <1>4, <2>1 DEF After, more
<1>5. CASE b # k /\ a # k
  <2>1. ASSUME After(rows, a, b) PROVE After(more, a, b)
    <3>1. PICK i \in 1..n : rows[i] = a /\ \A j \in 1..n : rows[j] = b => j < i BY <1>1, <2>1 DEF After
    <3>2. more[i] = a /\ \A j \in 1..(n + 1) : more[j] = b => j < i BY <1>1, <1>2, <1>5, <3>1
    <3> QED BY <1>1, <1>2, <3>2 DEF After
  <2>2. ASSUME After(more, a, b) PROVE After(rows, a, b)
    <3>1. PICK i \in 1..(n + 1) : more[i] = a /\ \A j \in 1..(n + 1) : more[j] = b => j < i
      BY <1>1, <2>2 DEF After
    <3>2. i \in 1..n BY <1>1, <1>2, <1>5, <3>1
    <3>3. rows[i] = a /\ \A j \in 1..n : rows[j] = b => j < i BY <1>1, <1>2, <3>1, <3>2
    <3> QED BY <1>1, <3>2, <3>3 DEF After
  <2> QED BY <1>5, <2>1, <2>2 DEF more
<1> QED BY <1>3, <1>4, <1>5

\* Of two classes that occur, one is after the other; of a class alone it makes no sense.
LEMMA AfterOccurs ==
  ASSUME NEW rows, NEW a, NEW b, After(rows, a, b), DOMAIN rows \subseteq Nat
  PROVE  a # b /\ \E i \in DOMAIN rows : rows[i] = a
<1>1. PICK i \in DOMAIN rows : rows[i] = a /\ \A j \in DOMAIN rows : rows[j] = b => j < i BY DEF After
<1>2. ~(i < i) BY <1>1
<1> QED BY <1>1, <1>2

\* The log of the module is exact: whatever was recorded, a message more is a row
\* more, and every query of the engine reads from it what it reads from the rows.
THEOREM LogExact ==
  ASSUME NEW S, NEW rows \in Seq(S), NEW a \in S, NEW b \in S
  PROVE  LogOf(<<>>) = EmptyLog /\ LogIsExact(rows, a, b)
<1> DEFINE log == LogOf(rows)
           seen == {rows[i] : i \in DOMAIN rows}
           more == Append(rows, a)
<1>1. /\ Len(rows) \in Nat /\ DOMAIN rows = 1..Len(rows) /\ \A i \in DOMAIN rows : rows[i] \in S
      /\ DOMAIN more = 1..(Len(rows) + 1)
      /\ more[Len(rows) + 1] = a /\ \A i \in DOMAIN rows : more[i] = rows[i]
  OBVIOUS
<1>2. log.seen = seen /\ log.newer = {p \in seen \X seen : After(rows, p[1], p[2])} BY DEF LogOf
<1>3. \A x, y : <<x, y>> \in log.newer <=> x \in seen /\ y \in seen /\ After(rows, x, y) BY <1>2
<1>4. \A x, y : After(rows, x, y) => x # y /\ x \in seen BY <1>1, AfterOccurs
<1>5. LogOf(<<>>) = EmptyLog
  <2>1. DOMAIN <<>> = {} OBVIOUS
  <2>2. {<<>>[i] : i \in DOMAIN <<>>} = {} BY <2>1
  <2> QED BY <2>2 DEF LogOf, EmptyLog
<1>6. Record(log, a) = LogOf(more)
  <2>1. {more[i] : i \in DOMAIN more} = seen \cup {a}
    <3>1. \A x \in seen \cup {a} : \E i \in DOMAIN more : more[i] = x BY <1>1
    <3>2. \A i \in DOMAIN more : i \in DOMAIN rows \/ i = Len(rows) + 1 BY <1>1
    <3>3. \A i \in DOMAIN more : more[i] \in seen \cup {a} BY <1>1, <3>2
    <3> QED BY <3>1, <3>3
  <2>2. ASSUME NEW x \in seen \cup {a}, NEW y \in seen \cup {a}
        PROVE  After(more, x, y) <=> \/ <<x, y>> \in log.newer /\ x # a /\ y # a
                                     \/ x = a /\ y \in seen \ {a}
    <3>1. x \in S /\ y \in S BY <1>1
    <3>2. After(more, x, y) <=> IF y = a THEN FALSE ELSE x = a \/ After(rows, x, y) BY <3>1, AfterAppend
    <3> QED BY <1>3, <3>2
  <2>3. \A p \in log.newer : p \in seen \X seen /\ p = <<p[1], p[2]>> BY <1>2
  <2>4. {p \in (seen \cup {a}) \X (seen \cup {a}) : After(more, p[1], p[2])}
          = {p \in log.newer : p[1] # a /\ p[2] # a} \cup {<<a, j>> : j \in seen \ {a}}
    <3> HIDE DEF log, more, seen
    <3>1. ASSUME NEW p \in (seen \cup {a}) \X (seen \cup {a}), After(more, p[1], p[2])
          PROVE  p \in {q \in log.newer : q[1] # a /\ q[2] # a} \cup {<<a, j>> : j \in seen \ {a}}
      <4>1. p = <<p[1], p[2]>> /\ p[1] \in seen \cup {a} /\ p[2] \in seen \cup {a} BY <3>1
      <4>2. \/ <<p[1], p[2]>> \in log.newer /\ p[1] # a /\ p[2] # a
            \/ p[1] = a /\ p[2] \in seen \ {a}
        BY <2>2, <3>1, <4>1
      <4> QED BY <4>1, <4>2
    <3>2. ASSUME NEW p \in log.newer, p[1] # a, p[2] # a
          PROVE  p \in (seen \cup {a}) \X (seen \cup {a}) /\ After(more, p[1], p[2])
      BY <2>2, <2>3, <3>2
    <3>3. ASSUME NEW j \in seen \ {a}
          PROVE  <<a, j>> \in (seen \cup {a}) \X (seen \cup {a}) /\ After(more, a, j)
      BY <2>2, <3>3
    <3> QED BY <3>1, <3>2, <3>3
  <2> QED BY <1>2, <2>1, <2>4 DEF Record, LogOf
<1>7. Has(log, a) <=> \E i \in DOMAIN rows : rows[i] = a BY <1>2 DEF Has
<1>8. IsLatest(log, a) <=> rows # <<>> /\ rows[Len(rows)] = a
  <2> DEFINE n == Len(rows)
  <2>1. ASSUME rows # <<>>, rows[n] = a PROVE IsLatest(log, a)
    <3>1. n \in DOMAIN rows BY <1>1, <2>1
    <3>2. a \in seen BY <2>1, <3>1
    <3>3. ASSUME NEW j \in seen \ {a} PROVE After(rows, a, j)
      <4>1. \A i \in DOMAIN rows : i # n => i < n BY <1>1
      <4> QED BY <2>1, <3>1, <4>1 DEF After
    <3> QED BY <1>2, <1>3, <3>2, <3>3 DEF IsLatest, Has, Newer
  <2>2. ASSUME IsLatest(log, a) PROVE rows # <<>> /\ rows[n] = a
    <3>1. PICK i \in DOMAIN rows : rows[i] = a BY <1>2, <2>2 DEF IsLatest, Has
    <3>2. rows # <<>> /\ n \in DOMAIN rows BY <1>1, <3>1
    <3>3. ASSUME rows[n] # a PROVE FALSE
      <4>1. rows[n] \in seen \ {a} BY <3>2, <3>3
      <4>2. After(rows, a, rows[n]) BY <1>2, <1>3, <2>2, <4>1 DEF IsLatest, Newer
      <4>3. PICK k \in DOMAIN rows : \A j \in DOMAIN rows : rows[j] = rows[n] => j < k BY <4>2 DEF After
      <4>4. n < k BY <3>2, <4>3
      <4> QED BY <1>1, <4>3, <4>4
    <3> QED BY <3>2, <3>3
  <2> QED BY <2>1, <2>2
<1>9. Newer(log, a, b) <=> Has(log, b) /\ After(rows, a, b) BY <1>2, <1>3, <1>4 DEF Newer, Has
<1>10. NotOutrankedBy(log, a, b) <=> Has(log, a) /\ ~After(rows, b, a)
  BY <1>2, <1>3, <1>4 DEF NotOutrankedBy, Newer, Has
<1> QED BY <1>5, <1>6, <1>7, <1>8, <1>9, <1>10 DEF LogIsExact

-----------------------------------------------------------------------------
(* The environment file of an instance *)

\* However a source reads, a redeployment leaves every secret and every other line of
\* its file as the first deployment rendered it, as long as what was minted then is no
\* empty string.
THEOREM RedeploysKeepFile ==
  ASSUME NEW source, NEW fresh, NEW other, NEW admin,
         \A k \in SecretKeys \cup {"DB_PASSWORD"} : fresh[k] # Empty
  PROVE  RedeployKeepsFile(source, fresh, other, admin)
<1> DEFINE none == <<>>
           file == Rendered(source, none, fresh, admin)
           kept == Secrets(file)
           keys == DOMAIN source \cup SharedKeys
<1>1. DOMAIN none = {} OBVIOUS
<1>2. SharedPassword(none, fresh) = fresh["DB_PASSWORD"] BY <1>1 DEF SharedPassword
<1>3. /\ DOMAIN file = keys
      /\ \A k \in SharedKeys : file[k] = fresh["DB_PASSWORD"]
      /\ \A k \in DOMAIN source \ SharedKeys :
           file[k] = RenderedValue(k, source[k], none, fresh, admin, fresh["DB_PASSWORD"])
  BY <1>2 DEF Rendered
<1>4. /\ DOMAIN kept = keys \cap (SecretKeys \cup SharedKeys)
      /\ \A k \in DOMAIN kept : kept[k] = file[k]
  BY <1>3 DEF Secrets, Restrict
<1> HIDE DEF file, kept
<1>5. SharedPassword(kept, other) = fresh["DB_PASSWORD"]
  BY <1>3, <1>4 DEF SharedPassword, SharedKeys
<1>6. ASSUME NEW k \in DOMAIN source \ SharedKeys
      PROVE  RenderedValue(k, source[k], kept, other, admin, fresh["DB_PASSWORD"]) = file[k]
  <2>1. CASE k \in SecretKeys /\ source[k] # Expansion /\ ~(k = AdminKey /\ admin # Empty)
    <3>1. file[k] = fresh[k] /\ k # "DATABASE_URL"
      BY <1>1, <1>3, <1>6, <2>1 DEF RenderedValue, SecretKeys
    <3>2. kept[k] = fresh[k] /\ k \in DOMAIN kept /\ fresh[k] # Empty BY <1>4, <1>6, <2>1, <3>1
    <3> QED BY <2>1, <3>1, <3>2 DEF RenderedValue
  <2>2. CASE ~(k \in SecretKeys /\ source[k] # Expansion /\ ~(k = AdminKey /\ admin # Empty))
    BY <1>3, <1>6, <2>2 DEF RenderedValue
  <2> QED BY <2>1, <2>2
<1>7. Rendered(source, kept, other, admin) = [k \in keys |-> file[k]] BY <1>3, <1>5, <1>6 DEF Rendered
<1>8. file = [k \in keys |-> file[k]] BY <1>3 DEF file, Rendered
<1> QED BY <1>7, <1>8 DEF RedeployKeepsFile, file, kept, none

\* Whatever the source and the file it replaces say: the services of an instance, and
\* those of the smoke stack, agree on one password and reach the instance's own
\* database, with the driver that the source names.
THEOREM OneDatabaseOneDriver ==
  ASSUME NEW source, NEW kept, NEW fresh, NEW admin
  PROVE  /\ OneDatabase(source, kept, fresh, admin)
         /\ SmokeHasOnePassword(source)
         /\ SameDriver(source, kept, fresh, admin)
<1> DEFINE password == SharedPassword(kept, fresh)
           file     == Rendered(source, kept, fresh, admin)
           smoke    == SmokeRendered(source)
<1>1. /\ \A k \in SharedKeys : file[k] = password
      /\ DOMAIN file = DOMAIN source \cup SharedKeys
      /\ \A k \in DOMAIN source \ SharedKeys :
           file[k] = RenderedValue(k, source[k], kept, fresh, admin, password)
  BY DEF Rendered
<1>2. /\ DOMAIN smoke = DOMAIN source \cup {"POSTGRES_PASSWORD"}
      /\ \A k \in DOMAIN smoke : smoke[k] = IF k \in SharedKeys THEN CiPassword
                                           ELSE IF k = "DATABASE_URL" THEN SmokeUrl(source[k]) ELSE source[k]
  BY DEF SmokeRendered
<1> HIDE DEF password, file, smoke
<1>3. \A v, p : Rewritten(v, p).where = p BY DEF Rewritten, Url
<1>4. \A v : SmokeUrl(v).where = CiPassword BY DEF SmokeUrl, Url
<1>5. "DATABASE_URL" \in DOMAIN source =>
        file["DATABASE_URL"] = IF source["DATABASE_URL"] = Expansion THEN Placeholder
                               ELSE Rewritten(source["DATABASE_URL"], password)
  BY <1>1 DEF RenderedValue, SharedKeys
<1>6. OneDatabase(source, kept, fresh, admin)
  <2>1. \A k, l \in SharedKeys : file[k] = file[l] BY <1>1
  <2>2. "DATABASE_URL" \in DOMAIN file =>
          file["DATABASE_URL"] = Placeholder \/ file["DATABASE_URL"].where = file["DB_PASSWORD"]
    BY <1>1, <1>3, <1>5 DEF SharedKeys
  <2> QED BY <2>1, <2>2 DEF OneDatabase, file
<1>7. SmokeHasOnePassword(source)
  <2>1. \A k \in SharedKeys \cap DOMAIN smoke : smoke[k] = smoke["POSTGRES_PASSWORD"]
    BY <1>2 DEF SharedKeys
  <2>2. "DATABASE_URL" \in DOMAIN smoke => smoke["DATABASE_URL"].where = smoke["POSTGRES_PASSWORD"]
    BY <1>2, <1>4 DEF SharedKeys
  <2>3. "READ_DATABASE_URL" \in DOMAIN smoke => smoke["READ_DATABASE_URL"] = source["READ_DATABASE_URL"]
    BY <1>2 DEF SharedKeys
  <2> QED BY <2>1, <2>2, <2>3 DEF SmokeHasOnePassword, smoke
<1>8. SameDriver(source, kept, fresh, admin)
  <2> SUFFICES ASSUME "DATABASE_URL" \in DOMAIN source, source["DATABASE_URL"].kind = "url"
               PROVE  <<smoke["DATABASE_URL"].scheme, smoke["DATABASE_URL"].driver>>
                        = <<file["DATABASE_URL"].scheme, file["DATABASE_URL"].driver>>
    BY DEF SameDriver, file, smoke
  <2> DEFINE u == source["DATABASE_URL"]
  <2>1. u # Expansion
    <3>1. Expansion.kind # "url" BY DEF Expansion
    <3> QED BY <3>1
  <2>2. smoke["DATABASE_URL"] = Url(u.scheme, u.driver, CiPassword) BY <1>2 DEF SmokeUrl, SharedKeys
  <2>3. file["DATABASE_URL"] = Url(u.scheme, u.driver, password) BY <1>5, <2>1 DEF Rewritten
  <2> HIDE DEF u
  <2> QED BY <2>2, <2>3 DEF Url
<1> QED BY <1>6, <1>7, <1>8

\* Of every file and every project: it is refused exactly when a URL would load the
\* default driver and the project declares drivers without it.
THEOREM RefusalIsExact ==
  ASSUME NEW file, NEW pyproject
  PROVE  RefusedWhenMissing(file, pyproject)
<1> DEFINE drivers == Declared(pyproject)
           Loads(v) == v.kind = "url" /\ v.scheme = "postgresql" /\ v.driver = ""
<1>1. ASSUME NEW v
      PROVE  UrlVerdict(v, drivers) = "refused"
               <=> Loads(v) /\ drivers \notin {{}, Unknown} /\ "psycopg2" \notin drivers
  <2> HIDE DEF drivers
  <2> QED BY DEF UrlVerdict
<1> HIDE DEF drivers, Loads
<1>2. Refused(file, drivers) <=>
        /\ \E k \in UrlKeys \cap DOMAIN file : Loads(file[k])
        /\ drivers \notin {{}, Unknown} /\ "psycopg2" \notin drivers
  BY <1>1 DEF Refused
<1> QED BY <1>2 DEF RefusedWhenMissing, drivers, Loads

-----------------------------------------------------------------------------
(* Who is told *)

\* For any number of users, connections and chats: a version that waits does not go
\* unnoticed, and whoever is told of it is not present at its board, and no stranger.
THEOREM NudgesReachTheAbsent ==
  ASSUME NEW Users, NEW Sockets, NEW conns, NEW chats, NEW owner \in Users, NEW status, NEW message,
         conns \subseteq [socket : Sockets, user : Users, away : BOOLEAN], DOMAIN chats = Users
  PROVE  /\ WaitingIsNoticed(status, message, conns, chats, owner)
         /\ OnlyTheAbsentAreTold(status, message, conns, chats, owner)
<1> DEFINE active == active_director_ids(conns)
           away   == away_director_ids(conns)
           there  == present_director_ids(conns)
<1>1. /\ \A u : u \in there <=> \E c \in conns : c.user = u
      /\ \A u : u \in active <=> \E c \in conns : ~c.away /\ c.user = u
      /\ \A u : u \in away <=> \E c \in conns : c.away /\ c.user = u
  BY DEF active_director_ids, away_director_ids, present_director_ids
<1>2. there = active \cup away
  <2>1. \A c \in conns : c.away \/ ~c.away OBVIOUS
  <2>2. \A u : u \in there <=> u \in active \/ u \in away BY <1>1
  <2> QED BY <2>2
<1>3. away \subseteq Users
  <2>1. \A c \in conns : c.user \in Users OBVIOUS
  <2> QED BY <1>1, <2>1
<1> HIDE DEF active, away, there
<1>4. \A U, chat : chat \in Chats(U, chats) <=> chat # NoChat /\ \E u \in U : chats[u] = chat BY DEF Chats
<1>5. Nudged(status, message, conns, chats, owner) =
        IF Waits(status, message) /\ active = {}
        THEN IF Chats(away, chats) # {} THEN Chats(away, chats) ELSE Chats({owner}, chats)
        ELSE {}
  BY DEF Nudged, Recipients, active, away
<1>6. WaitingIsNoticed(status, message, conns, chats, owner)
  <2> SUFFICES ASSUME Waits(status, message), active = {},
                      Nudged(status, message, conns, chats, owner) = {}
               PROVE  Chats({owner} \cup there, chats) = {}
    BY DEF WaitingIsNoticed, active, there
  <2>1. Chats(away, chats) = {} /\ Chats({owner}, chats) = {} BY <1>5
  <2>2. {owner} \cup there = {owner} \cup away BY <1>2
  <2>3. \A chat : chat \notin Chats({owner} \cup away, chats) BY <1>4, <2>1
  <2> QED BY <2>2, <2>3
<1>7. OnlyTheAbsentAreTold(status, message, conns, chats, owner)
  <2> SUFFICES ASSUME NEW chat \in Nudged(status, message, conns, chats, owner)
               PROVE  \E u \in DOMAIN chats : chats[u] = chat /\ u \notin active /\ u \in {owner} \cup away
    BY DEF OnlyTheAbsentAreTold, active, away
  <2>1. active = {} /\ (chat \in Chats(away, chats) \/ chat \in Chats({owner}, chats)) BY <1>5
  <2>2. PICK u \in {owner} \cup away : chats[u] = chat BY <1>4, <2>1
  <2> QED BY <1>3, <2>1, <2>2
<1> QED BY <1>6, <1>7

-----------------------------------------------------------------------------
(* Probes *)

\* A probe of any length: what it has heard well stays heard, and neither PROD nor a
\* smoke run passes over a service that did not answer.
THEOREM ProbesHear ==
  ASSUME NEW S, NEW tries \in Seq(S), NEW met \in S, NEW inst, NEW be, NEW fe, NEW route
  PROVE  /\ HeardStaysHeard(tries, met)
         /\ ProdIsReachable(inst, be, fe, route)
         /\ UatWarnsAboutItsRoute(inst, be, fe, route)
<1> DEFINE more == Append(tries, met)
           n    == Len(tries)
<1>1. /\ n \in Nat /\ DOMAIN tries = 1..n /\ DOMAIN more = 1..(n + 1)
      /\ \A i \in 1..n : i \in 1..(n + 1) /\ more[i] = tries[i]
  OBVIOUS
<1> HIDE DEF more, n
<1>2. Ready(tries) => Ready(more)
  <2>1. \A s, x : x \in ToSet(s) <=> \E i \in DOMAIN s : s[i] = x BY DEF ToSet
  <2>2. \A x : x \in ToSet(tries) => x \in ToSet(more) BY <1>1, <2>1
  <2> QED BY <2>2 DEF Ready
<1>3. PublicRoute(tries) = "ok" => PublicRoute(more) = "ok"
  <2> SUFFICES ASSUME PublicRoute(tries) = "ok" PROVE PublicRoute(more) = "ok" OBVIOUS
  <2>1. PICK i \in DOMAIN tries : RouteExit(tries[i]) = 0 BY DEF PublicRoute
  <2>2. i \in DOMAIN more /\ RouteExit(more[i]) = 0 BY <1>1, <2>1
  <2> QED BY <2>2 DEF PublicRoute
<1>4. HeardStaysHeard(tries, met) BY <1>2, <1>3 DEF HeardStaysHeard, more
<1>5. ProdIsReachable(inst, be, fe, route) BY DEF ProdIsReachable, Serves
<1>6. UatWarnsAboutItsRoute(inst, be, fe, route) BY DEF UatWarnsAboutItsRoute, Serves
<1> QED BY <1>4, <1>5, <1>6

\* The notes of a release, asked for any number of times: the first answer decides.
THEOREM NotesAreDecidedOnce ==
  ASSUME NEW S, NEW answers \in Seq(S), NEW later \in S, NEW version
  PROVE  FirstNotesDecide(answers, later, version)
<1> DEFINE more == Append(answers, later)
           n    == Len(answers)
           heard == {i \in DOMAIN answers : answers[i].status \in Answered}
           heardMore == {i \in DOMAIN more : more[i].status \in Answered}
<1>1. /\ n \in Nat /\ DOMAIN answers = 1..n /\ DOMAIN more = 1..(n + 1) /\ more[n + 1] = later
      /\ \A i \in 1..n : more[i] = answers[i]
  OBVIOUS
<1> HIDE DEF more, n
<1>2. heardMore = heard \cup {i \in {n + 1} : later.status \in Answered}
  <2>1. \A i : i \in 1..(n + 1) <=> i \in 1..n \/ i = n + 1 BY <1>1
  <2> QED BY <1>1, <2>1
<1>3. \A i \in heard : i \in 1..n /\ i < n + 1 BY <1>1
<1>4. NotesServed(answers, version) <=> \E i \in heard : (\A j \in heard : i <= j) /\ NotesListed(answers[i], version)
  BY DEF NotesServed
<1>5. NotesServed(more, version) <=> \E i \in heardMore : (\A j \in heardMore : i <= j) /\ NotesListed(more[i], version)
  BY DEF NotesServed
<1>6. (\E i \in DOMAIN answers : answers[i].status \in Answered) <=> heard # {} OBVIOUS
<1> HIDE DEF heard, heardMore
<1>7. CASE heard # {}
  <2>1. PICK k \in heard : TRUE BY <1>7
  <2>2. ASSUME NEW i \in heardMore, \A j \in heardMore : i <= j PROVE i \in heard
    <3>1. k \in heardMore /\ i <= k /\ k < n + 1 /\ k \in 1..n BY <1>2, <1>3, <2>1, <2>2
    <3>2. i # n + 1 BY <1>1, <3>1
    <3> QED BY <1>2, <2>2, <3>2
  <2>3. ASSUME NEW i \in heard
        PROVE  /\ i \in heardMore /\ more[i] = answers[i]
               /\ (\A j \in heard : i <= j) <=> (\A j \in heardMore : i <= j)
    <3>1. i <= n + 1 BY <1>1, <1>3, <2>3
    <3> QED BY <1>1, <1>2, <1>3, <2>3, <3>1
  <2>4. NotesServed(more, version) <=> NotesServed(answers, version) BY <1>4, <1>5, <2>2, <2>3
  <2> QED BY <1>6, <1>7, <2>4 DEF FirstNotesDecide, more, NotesServed
<1>8. CASE heard = {}
  <2>1. NotesListed(later, version) => later.status \in Answered BY DEF NotesListed, Answered
  <2>2. NotesServed(more, version) <=> NotesListed(later, version)
    <3>1. heardMore = {i \in {n + 1} : later.status \in Answered} BY <1>2, <1>8
    <3>2. n + 1 <= n + 1 BY <1>1
    <3> QED BY <1>1, <1>5, <2>1, <3>1, <3>2
  <2> QED BY <1>6, <1>8, <2>2 DEF FirstNotesDecide, more, NotesServed, NotesListed
<1> QED BY <1>7, <1>8

-----------------------------------------------------------------------------
(* Blocks, verifications *)

\* Every block that is taken asks clearly, whatever the answer it was read from.
THEOREM BlocksAskClearly ==
  ASSUME NEW answer
  PROVE  AskedClearly(answer)
<1> DEFINE b == Block(answer)
<1>1. ASSUME NEW x, _validate_block(x) # Failure
      PROVE  /\ _validate_block(x) = x /\ Fits(x)
             /\ x.kind \in {"question", "blocked", "framework_issue"} => x.question
             /\ x.kind = "consultation" =>
                  /\ x.consultation # <<>>
                  /\ \A i \in DOMAIN x.consultation[1] : x.consultation[1][i].recommended = 1
  BY <1>1 DEF _validate_block
<1>2. \A obj : parse_structured_output(obj) = Failure \/ \E x : parse_structured_output(obj) = _validate_block(x)
  BY DEF parse_structured_output
<1>3. b = Failure \/ \E x : b = _validate_block(x)
  BY <1>2 DEF Block, parse_status_block
<1> HIDE DEF b
<1> SUFFICES ASSUME b # Failure
             PROVE  /\ MessageKind(b) = "question" => b.question
                    /\ MessageKind(b) = "consultation" =>
                         \A i, j \in DOMAIN b.consultation[1] :
                           /\ b.consultation[1][i].recommended = 1
                           /\ i # j => b.consultation[1][i].key # b.consultation[1][j].key
  BY DEF AskedClearly, b
<1>4. PICK x : b = _validate_block(x) BY <1>3
<1>5. b = x BY <1>1, <1>4
<1>6. MessageKind(b) = "question" => b.kind \in {"question", "blocked"} BY DEF MessageKind
<1>7. MessageKind(b) = "consultation" => b.kind = "consultation" BY DEF MessageKind
<1> QED BY <1>1, <1>4, <1>5, <1>6, <1>7 DEF Fits, ConsultationFits

\* Of every set of versions: what is verified over two readable HEADs does not depend on
\* the HEAD.
THEOREM CommitsUnverify ==
  ASSUME NEW versions, NEW head, NEW next
  PROVE  CommitUnverifies(versions, head, next)
BY DEF CommitUnverifies, version_verified, Unanchored
==============================================================================
