------------------------------ MODULE UserStore ------------------------------
(***************************************************************************)
(* The User custom resources of package fuyaouser, as the Kubernetes API   *)
(* server stores them, and the calls the oauth-server makes on them.       *)
(*                                                                         *)
(* Every resource carries a resourceVersion.  An update sends the whole    *)
(* object back and is refused when the version it was read at is no longer *)
(* the stored one; a merge patch names only the fields it sets and is      *)
(* never refused.  The status part is written by a controller outside this *)
(* repository, which derives it from the recorded failures.                *)
(***************************************************************************)
EXTENDS Integers, FiniteSets

CONSTANTS
  User,       \* names of the User resources
  Password,   \* raw passwords
  Malformed,  \* a stored password that does not decode
  Unset,      \* a stored password too short to hold a salt
  Attempt,    \* identities of login, confirmation and reset requests
  FailTimes   \* recorded failures at which the controller locks a user

ASSUME MalformedAssumption == {Malformed, Unset} \cap Password = {}
ASSUME AttemptAssumption == IsFiniteSet(Attempt)
ASSUME FailTimesAssumption == FailTimes \in Nat \ {0}

VARIABLE cr   \* cr[u] is the stored resource of user u

(***************************************************************************)
(* A stored password is abstracted to the raw password it was derived      *)
(* from: salt and key derivation keep two different passwords apart.       *)
(***************************************************************************)
Encrypted == Password \cup {Malformed, Unset}

UserCR ==
  [rv : Nat,                  \* metadata.resourceVersion
   pw : Encrypted,            \* spec.EncryptedPassword
   firstLogin : BOOLEAN,      \* spec.FirstLogin
   fails : SUBSET Attempt,    \* spec.failedLoginRecords, one per attempt
   locked : BOOLEAN,          \* status.lockStatus = "Locked"
   remain : Int]              \* status.RemainAttempts

StoreTypeOK == cr \in [User -> UserCR]

(***************************************************************************)
(* A user starts without failures; the controller has filled in the status *)
(* or has not seen the resource yet (RemainAttempts absent reads as 0).    *)
(***************************************************************************)
StoreInit ==
  cr \in [User -> [rv : {0}, pw : Encrypted, firstLogin : BOOLEAN,
                   fails : {{}}, locked : {FALSE}, remain : {0, FailTimes}]]

-----------------------------------------------------------------------------
\* An update that changes nothing does not create a new version.
Written(u, obj) ==
  IF obj = cr[u] THEN obj ELSE [obj EXCEPT !.rv = @ + 1]

Patched(u, p) ==
  [cr[u] EXCEPT !.rv = @ + 1, !.pw = p, !.firstLogin = FALSE]

\* Mutant: the object is sent without its resourceVersion.
UpdateUnconditionally(u, obj, ok) ==
  \/ cr' = [cr EXCEPT ![u] = [obj EXCEPT !.rv = cr[u].rv + 1]]
  \/ ~ ok /\ UNCHANGED cr

(***************************************************************************)
(* A write and what its caller is told.  A caller that gets an error       *)
(* (ok = FALSE) cannot tell a refused or undelivered write from one whose  *)
(* answer was lost.                                                        *)
(***************************************************************************)
UpdateUserInfo(u, obj, ok) ==
  \/ /\ obj.rv = cr[u].rv
     /\ cr' = [cr EXCEPT ![u] = Written(u, obj)]
  \/ ~ ok /\ UNCHANGED cr

PatchUserInfo(u, p, ok) ==
  \/ cr' = [cr EXCEPT ![u] = Patched(u, p)]
  \/ ~ ok /\ UNCHANGED cr

-----------------------------------------------------------------------------
(***************************************************************************)
(* The controller.  The code relies on RemainAttempts counting down from   *)
(* the limit, on "Locked" at the limit, and on a lock that ends some time  *)
(* after LockedTimestamp; how late the controller acts is left open.       *)
(***************************************************************************)
LockedBy(fails) == Cardinality(fails) >= FailTimes
RemainOf(fails) == FailTimes - Cardinality(fails)

Reconcile(u) ==
  LET c == cr[u] IN
  /\ <<c.locked, c.remain>> # <<LockedBy(c.fails), RemainOf(c.fails)>>
  /\ cr' = [cr EXCEPT ![u] = [c EXCEPT !.rv = @ + 1,
                                       !.locked = LockedBy(c.fails),
                                       !.remain = RemainOf(c.fails)]]

LockExpires(u) ==
  LET c == cr[u] IN
  /\ c.locked
  /\ cr' = [cr EXCEPT ![u] = [c EXCEPT !.rv = @ + 1,
                                       !.fails = {},
                                       !.locked = FALSE,
                                       !.remain = FailTimes]]
=============================================================================
