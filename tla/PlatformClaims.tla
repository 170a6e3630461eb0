---------------------------- MODULE PlatformClaims ----------------------------
(* The claims of the pure modules, over small inputs: evaluated when the      *)
(* platform is checked.                                                       *)
EXTENDS Integers, Sequences, FiniteSets, TLC

LOCAL L == INSTANCE MessageLog
LOCAL P == INSTANCE Ports
LOCAL T == INSTANCE TerminalLog
LOCAL N == INSTANCE Nudge
LOCAL D == INSTANCE DeployMatrix
LOCAL S == INSTANCE ServeCheck
LOCAL E == INSTANCE InstanceEnv
LOCAL B == INSTANCE StatusBlock

LOCAL SeqUpTo(set, n) == UNION {[1..k -> set] : k \in 0..n}
LOCAL SomeSeq(set, n) == UNION {[1..k -> set] : k \in 1..n}

-----------------------------------------------------------------------------
\* Up to five messages of three classes.
ASSUME MessageLogs ==
  /\ L!LogOf(<<>>) = L!EmptyLog
  /\ \A rows \in SeqUpTo({"k", "l", "m"}, 5), a, b \in {"k", "l", "m"} : L!LogIsExact(rows, a, b)

\* Up to two projects over eight ports, some of them beyond the range or NULL, blocks
\* of one to three, reserved ranges that overlap, lie outside or read backwards.
LOCAL SomeProjects ==
  LET P3 == [P!PORT_TYPES -> {0, 1, 2, 4, 7}] IN {{}} \cup {{p} : p \in P3} \cup {{p, [t \in P!PORT_TYPES |-> 5]} : p \in P3}

ASSUME PortRegister ==
  \A projects \in SomeProjects :
    /\ P!PortIsFree(projects, 1, 6) /\ P!OwnPortStays(projects)
    /\ \A ranges \in {{}, {<<1, 2>>}, {<<3, 3>>, <<4, 9>>}, {<<6, 2>>}}, size \in 1..3 :
         P!BlockIsFirstFree(projects, ranges, size, 1, 6)

\* The single suggestion, unlike that of a block, may lie in a reserved range.
ASSUME PortMayBeReserved ==
  \E port \in 1..6 : P!suggest_next_port({}, 1, 6) = port /\ port \in P!Reserved({<<1, 2>>})

\* Up to four chunks of up to three bytes into a log of at most four.
ASSUME TerminalLogs ==
  /\ \A sizes \in SeqUpTo(1..3, 4) :
       LET chunks == [i \in DOMAIN sizes |-> [j \in 1..sizes[i] |-> 10 * i + j]] IN
       T!LogIsBounded(chunks, 4) /\ \A size \in {1, 2, 5} : T!ReplayEndsWithOutput(chunks, 4, size)
  /\ \A written \in 0..2, ended \in 0..2 : T!LiveLogStays([written |-> written, ended |-> ended], 1)

\* Two users with two connections each, any chats, any settle.
ASSUME Nudges ==
  LET Users == {"u", "v"}
      Conns == [socket : {1, 2}, user : Users, away : BOOLEAN] IN
  \A conns \in {c \in SUBSET Conns : \A x, y \in c : x.socket = y.socket => x = y}, chats \in [Users -> {"c", "d", N!NoChat}], owner \in Users,
     status \in {"agent_working", "awaiting_manazer", "blocked", "done", "paused"},
     message \in [author : {"system", "manazer"}, token_stop : BOOLEAN] :
    /\ N!WaitingIsNoticed(status, message, conns, chats, owner)
    /\ N!OnlyTheAbsentAreTold(status, message, conns, chats, owner)

\* Up to three events of two customers.
ASSUME Matrices ==
  LET Events == [customer : {"k"}, env : {"uat", "prod"}, type : {"deploy"}, status : {"ok", "failed"}, number : {1, 2}]
                \cup [customer : {"k", "l"}, env : {"uat"}, type : {"accept"}, status : {"ok"}, number : {1, 2}] IN
  \A events \in SeqUpTo(Events, 3) :
    /\ D!AcceptedOnce(events, "k") /\ D!GraduationRenames(events, "k", 1, 3)
    /\ \A env \in {"uat", "prod"} : D!FailureShows(events, "k", env, 2)

ASSUME Verifications ==
  LET Records == [number : {1}, stage : {"done"}, status : {"active", "released"}, signed : BOOLEAN,
                   passed : BOOLEAN, verified_sha : {"a", "b", "legacy", "none"}, hotovo_sha : {"a", "b", "none"}] IN
  \A head, next \in {"a", "b", "c", "none"} :
    /\ D!CommitUnverifies(Records, head, next)
    /\ \A v \in Records : D!list_verified_versions({v}, head) = IF D!version_verified(v, head) THEN <<1>> ELSE <<>>

\* Probes of up to two attempts, over every kind of instance.
LOCAL Instances == [compose : BOOLEAN, source : BOOLEAN, backend : BOOLEAN, frontend : BOOLEAN]
LOCAL Probes    == SomeSeq(S!Met, 2)

ASSUME DeployChecks ==
  /\ \A inst \in Instances, route \in Probes, be, fe \in {<<"none">>, <<"5xx", "2xx">>, <<"404">>} :
       S!ProdIsReachable(inst, be, fe, route) /\ S!UatWarnsAboutItsRoute(inst, be, fe, route)
  /\ \A tries \in Probes, met \in S!Met : S!HeardStaysHeard(tries, met)

ASSUME SmokeChecks ==
  LET Notes == [status : {"2xx", "404", "none"}, list : {{}, {1}}]
      Ports == {<<>>, <<[container |-> "unreadable"]>>, <<[container |-> "8000"], [container |-> "9"]>>} IN
  \A answers \in SeqUpTo(Notes, 2) :
    /\ \A later \in Notes : S!FirstNotesDecide(answers, later, 1)
    /\ \A inst \in Instances, src \in [page : BOOLEAN, import : BOOLEAN, route : BOOLEAN, nav : BOOLEAN], ports \in Ports,
          be, fe \in {<<"none">>, <<"2xx">>} : S!SmokeHeardIt(inst, src, ports, be, fe, answers, 1)

\* Every kind of value for every kind of key.
LOCAL Values == {E!Literal("x"), E!Expansion, E!Url("postgresql", "", E!Literal("theirs")),
                 E!Url("postgresql", "pg8000", E!Literal("theirs"))}
LOCAL Sources == [{"API_KEY", "ADMIN_INITIAL_PASSWORD", "DATABASE_URL", "READ_DATABASE_URL", "DB_PASSWORD", "EMAIL"} -> Values]
LOCAL Minted(n) == [k \in {"API_KEY", "ADMIN_INITIAL_PASSWORD", "DB_PASSWORD"} |-> [kind |-> "minted", key |-> k, of |-> n]]

ASSUME EnvironmentFiles ==
  \A source \in Sources, admin \in {E!Empty, E!Literal("admin")} :
    /\ E!RedeployKeepsFile(source, Minted(1), Minted(2), admin)
    /\ E!OneDatabase(source, <<>>, Minted(1), admin)
    /\ E!SmokeHasOnePassword(source) /\ E!SameDriver(source, <<>>, Minted(1), admin)
    /\ E!FilledInIsLost(source, "API_KEY" :> E!Literal("filled in"), Minted(1), admin)

ASSUME DriverChecks ==
  \A source \in [E!UrlKeys -> Values \cup {E!Placeholder, E!Url("sqlite", "", E!Literal("theirs"))}],
     pyproject \in SUBSET {"psycopg2-binary", "psycopg", "pg8000", "asyncpg"} \cup {E!Unknown} :
    E!RefusedWhenMissing(source, pyproject)

\* Answers with every kind of structured output and texts of up to two pieces.
LOCAL BlocksTold ==
  LET Decision == [key : {"k", "l"}, options : {1, 2}, recommended : 0..2] IN
  [stage : {"navrh", "priprava", "upratovanie"}, kind : B!BLOCK_KINDS, awaiting : {"manazer"}, question : BOOLEAN,
   plan : {<<>>, <<<<>>>>, <<<<<<1>>>>>>}, consultation : {<<>>} \cup {<<d>> : d \in SeqUpTo(Decision, 1)}]
  \cup [stage : {"priprava"}, kind : {"consultation"}, awaiting : {"manazer", "nobody"}, question : {FALSE}, plan : {<<>>},
        consultation : {<<d>> : d \in [1..2 -> Decision]}]

ASSUME StatusBlocks ==
  LET Json   == {B!Garbage, B!Scalar} \cup {B!Object(b) : b \in BlocksTold}
      Good   == B!Object(CHOOSE b \in BlocksTold : B!_validate_block(b) # B!Failure)
      Pieces == {B!Words} \cup {B!Fence(k, j) : k \in {"status", "plan"}, j \in {B!Garbage, Good}}
      Answers == [structured : {B!NoOutput} \cup Json, text : SeqUpTo(Pieces, 2)]
                 \cup [structured : {B!NoOutput}, text : {<<B!Words, B!Fence("status", j)>> : j \in Json}] IN
  \A answer \in Answers :
    /\ B!AskedClearly(answer) /\ B!ReportIsText(answer) /\ B!FaultReadsAsReport(answer)
    /\ \A piece \in Pieces : B!MoreTextNeverMisleads(answer, piece)

ASSUME PlanPasses ==
  \A skeleton \in SeqUpTo(SeqUpTo({1}, 2), 2) : \A bad \in {B!Scalar, B!Object([plan |-> <<>>])} :
    B!PlanPassIsStricter(skeleton, bad)
=============================================================================
