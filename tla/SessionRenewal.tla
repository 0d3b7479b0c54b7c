---------------------------- MODULE SessionRenewal ----------------------------
(***************************************************************************)
(* publish_to_env (operations/zerodha_renewal.py): a renewed broker        *)
(* session is written into the deployment's .env, which an operator also   *)
(* edits by hand and which other publishers may be writing.  Publishers    *)
(* hold an advisory lock, build a copy and compare the file with the one   *)
(* they read before they rename the copy over it; an editor takes no lock. *)
(*                                                                         *)
(* The file is the session it holds, its account and the hand edits it has *)
(* seen; each writing gives it another identity.  Its syntax, permissions, *)
(* the refusal of live money and the alerts of the boot check are left     *)
(* out.                                                                    *)
(***************************************************************************)
EXTENDS Integers, Sequences, FiniteSets

CONSTANTS
  Publishers,
  Accounts, NoAccount,
  LastLogin,    \* bound: interactive logins
  LastWriting,  \* bound: writings of the file
  LastCutoff    \* bound: daily cutoffs of the broker

VARIABLES
  cutoff,       \* how many 06:00 cutoffs have passed
  logins,       \* sessions the broker has issued: account and day
  env,          \* the file
  locked,       \* flock on .env.zerodha.lock: its holder
  publisher     \* each publisher's progress

renewalVars == <<cutoff, logins, env, locked, publisher>>

Nobody == "nobody"

ASSUME PublishersAssumption == Nobody \notin Publishers

Waiting == [step |-> "idle"]

\* A token that was entered by hand has no account beside it.
RenewalInit ==
  /\ cutoff = 1
  /\ logins = << >>
  /\ env = [session |-> 0, account |-> NoAccount, edits |-> 0, identity |-> 1]
  /\ locked = Nobody
  /\ publisher = [p \in Publishers |-> Waiting]

\* The broker's answer to profile(): a session lives until the next cutoff,
\* or until its account logs in again.
Alive(session) ==
  /\ logins[session].day = cutoff
  /\ \A later \in session + 1..Len(logins) :
       logins[later].account # logins[session].account

-----------------------------------------------------------------------------
(* publish_to_env.                                                         *)

\* An expired session is refused before anything is read.
BeginPublish(p, session) ==
  /\ publisher[p] = Waiting
  /\ logins[session].day = cutoff
  /\ publisher' = [publisher EXCEPT ![p] = [step |-> "lock", session |-> session]]
  /\ UNCHANGED <<cutoff, logins, env, locked>>

\* Defect: publishers do not wait for each other.
NoWait(p) == TRUE

LockIsFree(p) == locked = Nobody

SameAccount(session) == env.account \in {NoAccount, logins[session].account}

LetGo(p) ==
  /\ locked' = IF locked = p THEN Nobody ELSE locked
  /\ publisher' = [publisher EXCEPT ![p] = Waiting]

\* Under the lock: the file is read, and may not belong to another account.
ReadEnv(p) ==
  LET w == publisher[p]
  IN /\ w.step = "lock"
     /\ LockIsFree(p)
     /\ IF SameAccount(w.session)
        THEN /\ locked' = p
             /\ publisher' = [publisher EXCEPT ![p] =
                  [step |-> "validate", session |-> w.session, before |-> env]]
        ELSE LetGo(p)
     /\ UNCHANGED <<cutoff, logins, env>>

\* validate_token asks the broker; a refusal or no answer leaves the file.
ValidateSession(p) ==
  /\ publisher[p].step = "validate"
  /\ \/ /\ Alive(publisher[p].session)
        /\ publisher' = [publisher EXCEPT ![p].step = "compare"]
        /\ UNCHANGED locked
     \/ LetGo(p)
  /\ UNCHANGED <<cutoff, logins, env>>

\* Defect: the copy is renamed without a second look at the file.
NoSecondLook(before) == TRUE

Unchanged(before) == env = before

\* The copy is complete; the file must still be the one that was read.
CompareEnv(p) ==
  /\ publisher[p].step = "compare"
  /\ \/ /\ Unchanged(publisher[p].before)
        /\ publisher' = [publisher EXCEPT ![p] =
             [step |-> "rename", session |-> @.session, before |-> @.before,
              overtaken |-> FALSE]]
        /\ UNCHANGED locked
     \/ /\ ~Unchanged(publisher[p].before)
        /\ LetGo(p)
  /\ UNCHANGED <<cutoff, logins, env>>

RenameCopy(p) ==
  LET w == publisher[p]
  IN /\ w.step = "rename"
     /\ env.identity < LastWriting
     /\ env' = [session |-> w.session, account |-> logins[w.session].account,
                edits |-> w.before.edits, identity |-> env.identity + 1]
     /\ LetGo(p)
     /\ UNCHANGED <<cutoff, logins>>

\* The publisher dies or cannot write: the lock goes with its descriptor.
PublisherDies(p) ==
  /\ publisher[p] # Waiting
  /\ LetGo(p)
  /\ UNCHANGED <<cutoff, logins, env>>

-----------------------------------------------------------------------------

Login(account) ==
  /\ Len(logins) < LastLogin
  /\ logins' = Append(logins, [account |-> account, day |-> cutoff])
  /\ UNCHANGED <<cutoff, env, locked, publisher>>

\* An operator changes other lines, or removes the account beside the token.
EditEnv ==
  /\ env.identity < LastWriting
  /\ \E account \in {env.account, NoAccount} :
       env' = [env EXCEPT !.account = account, !.edits = @ + 1, !.identity = @ + 1]
  /\ publisher' = [p \in Publishers |->
       IF publisher[p].step = "rename" THEN [publisher[p] EXCEPT !.overtaken = TRUE]
       ELSE publisher[p]]
  /\ UNCHANGED <<cutoff, logins, locked>>

PassCutoff ==
  /\ cutoff < LastCutoff
  /\ cutoff' = cutoff + 1
  /\ UNCHANGED <<logins, env, locked, publisher>>

RenewalNext ==
  \/ \E p \in Publishers :
       \/ \E session \in DOMAIN logins : BeginPublish(p, session)
       \/ ReadEnv(p) \/ ValidateSession(p) \/ CompareEnv(p) \/ RenameCopy(p)
       \/ PublisherDies(p)
  \/ \E account \in Accounts : Login(account)
  \/ EditEnv \/ PassCutoff

RenewalSpec == RenewalInit /\ [][RenewalNext]_renewalVars

-----------------------------------------------------------------------------
(* Properties.                                                             *)

\* An editor came between the comparison and the rename.
Overtaken == \E p \in Publishers : publisher[p].step = "rename" /\ publisher[p].overtaken

\* What a writing of the file may not do.
WritingKeeps ==
  /\ env'.session < env.session =>
       logins[env'.session].account # logins[env.session].account
  /\ env'.account \notin {env.account, NoAccount} => env.account = NoAccount \/ Overtaken
  /\ env'.edits < env.edits => Overtaken

\* PublishKeepsFile: however publishers, logins and hand edits interleave, a writing of the
\* file never brings back an older session of an account and never takes the file to another
\* account unless an editor removed the first; it loses no hand edit but one made between
\* the comparison and the rename (zerodha_renewal.py publish_to_env).
PublishKeepsFile == [][WritingKeeps]_env
=============================================================================
