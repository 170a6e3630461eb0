----------------------------- MODULE DeployMatrix -----------------------------
(***************************************************************************)
(* What the deploy matrix reads from the events of a project, in the order *)
(* they were recorded: the version that runs at a customer, whether the    *)
(* last attempt failed, which versions it accepted.  Pure: events are a    *)
(* sequence of [customer, env, type, status, number].                      *)
(***************************************************************************)
EXTENDS Naturals, Sequences, SequencesExt, FiniteSets

NoNumber == 0  \* versions are numbered, by their order

\* The deploy events of a customer in an environment, the latest first.
DeploysOf(events, c, env) ==
  Reverse(SelectSeq(events, LAMBDA e : e.customer = c /\ e.env = env /\ e.type = "deploy"))

\* current_version: the last deployment that succeeded.
current_version(events, c, env) ==
  LET ok == SelectSeq(DeploysOf(events, c, env), LAMBDA e : e.status = "ok")
  IN IF ok = <<>> THEN NoNumber ELSE ok[1].number

\* last_deploy_attempt_failed
last_deploy_attempt_failed(events, c, env) ==
  LET all == DeploysOf(events, c, env) IN all # <<>> /\ all[1].status = "failed"

\* accepted_versions: the latest acceptance first, each number once.
accepted_versions(events, c) ==
  LET accepts == Reverse(SelectSeq(events, LAMBDA e : e.customer = c /\ e.type = "accept"))
      First(i) == \A j \in 1..(i - 1) : accepts[j].number # accepts[i].number
      firsts   == SetToSortSeq({i \in DOMAIN accepts : First(i)}, <)
  IN [k \in DOMAIN firsts |-> accepts[firsts[k]].number]

\* version_verified, its ladder: a release stays verified, a signature replaces the
\* verdict, and an anchor that could not be set, or a HEAD that cannot be read, never
\* takes a verification back.
Unanchored == "none"
version_verified(v, head) ==
  LET anchor == IF v.signed THEN v.hotovo_sha ELSE v.verified_sha IN
  \/ v.status = "released"
  \/ /\ v.signed \/ v.passed
     /\ anchor \in {Unanchored, head} \/ head = Unanchored \/ (~v.signed /\ anchor = "legacy")

\* list_verified_versions: HEAD is read once, the highest number comes first.
list_verified_versions(versions, head) ==
  LET verified == {v \in versions : v.stage = "done" /\ version_verified(v, head)}
  IN SetToSortSeq({v.number : v \in verified}, >)

\* _repoint_events_to_new_number: the events follow a version to its new number.
RepointedSeq(events, old, new) ==
  [i \in DOMAIN events |-> IF events[i].number = old THEN [events[i] EXCEPT !.number = new] ELSE events[i]]

\* build_matrix, a customer's row: an instance has an address once it runs a version.
Row(events, c) ==
  [env \in {"uat", "prod"} |->
     [version |-> current_version(events, c, env),
      failed  |-> last_deploy_attempt_failed(events, c, env),
      url     |-> current_version(events, c, env) # NoNumber]]

-----------------------------------------------------------------------------
(* Claims *)

\* A failed attempt leaves what runs in place, and shows; the next success clears it.
FailureShows(events, c, env, number) ==
  LET Attempt(status) == Append(events, [customer |-> c, env |-> env, type |-> "deploy",
                                         status |-> status, number |-> number])
  IN /\ current_version(Attempt("failed"), c, env) = current_version(events, c, env)
     /\ last_deploy_attempt_failed(Attempt("failed"), c, env)
     /\ current_version(Attempt("ok"), c, env) = number
     /\ ~last_deploy_attempt_failed(Attempt("ok"), c, env)

\* A graduation renames what the matrix shows and changes nothing else of it, as long
\* as the new number was nobody's.
GraduationRenames(events, c, old, new) ==
  (\A i \in DOMAIN events : events[i].number # new) =>
    LET now == RepointedSeq(events, old, new)
        Renamed(n) == IF n = old THEN new ELSE n
    IN /\ \A env \in {"uat", "prod"} :
            /\ Row(now, c)[env].version = Renamed(Row(events, c)[env].version)
            /\ Row(now, c)[env].failed = Row(events, c)[env].failed
       /\ accepted_versions(now, c)
            = [k \in DOMAIN accepted_versions(events, c) |-> Renamed(accepted_versions(events, c)[k])]

\* A commit takes the verification of every finished version back that is anchored and
\* not released, and of no other: what the matrix still lists over two readable HEADs
\* is what does not depend on HEAD.
CommitUnverifies(versions, head, next) ==
  (head # next /\ Unanchored \notin {head, next}) =>
    \A v \in {w \in versions : version_verified(w, head) /\ version_verified(w, next)} :
      \/ v.status = "released"
      \/ v.signed /\ v.hotovo_sha = Unanchored
      \/ ~v.signed /\ v.verified_sha \in {Unanchored, "legacy"}

\* Every number a customer accepted is listed, once.
AcceptedOnce(events, c) ==
  LET listed == accepted_versions(events, c) IN
  /\ IsInjective(listed)
  /\ ToSet(listed) = {events[i].number : i \in {j \in DOMAIN events :
                        events[j].customer = c /\ events[j].type = "accept"}}
=============================================================================
