------------------------- MODULE RolesGrantedProofs -------------------------
(***************************************************************************)
(* Proofs about RolesGranted, for any roles, operations, role lists and    *)
(* initial memberships, and about MembershipOps, where the other writers   *)
(* of memberships are beside it.                                           *)
(***************************************************************************)
EXTENDS MembershipOps, SequenceTheorems, TLAPS

\* The part of IInv that is about one operation.
SInv(s) == Control(s) /\ Books(s) /\ ChecksHold(s) /\ PreparedRolesHeld(s)

-----------------------------------------------------------------------------
(* Sequences as the sets of their elements. *)

\* An empty list has no elements and no repetition.
LEMMA ElemsOfEmpty == Elems(<<>>) = {} /\ NoDuplicates(<<>>)
  BY DEF Elems, NoDuplicates

\* The elements of a list are of its type.
LEMMA ElemsInSet ==
  ASSUME NEW S, NEW seq \in Seq(S)
  PROVE  Elems(seq) \subseteq S
  BY ElementOfSeq, LenProperties DEF Elems

\* Taking the head off a sequence takes its element out of the set.
LEMMA TailElems ==
  ASSUME NEW S, NEW seq \in Seq(S), seq # <<>>
  PROVE  /\ Head(seq) \in S
         /\ Tail(seq) \in Seq(S)
         /\ Elems(seq) = {Head(seq)} \cup Elems(Tail(seq))
         /\ NoDuplicates(seq) => NoDuplicates(Tail(seq)) /\ Head(seq) \notin Elems(Tail(seq))
<1>1. /\ Head(seq) \in S
      /\ Tail(seq) \in Seq(S)
      /\ Len(Tail(seq)) = Len(seq) - 1
      /\ \A i \in 1 .. Len(Tail(seq)) : Tail(seq)[i] = seq[i + 1]
      /\ Head(seq) = seq[1]
  BY HeadTailProperties
<1>2. Len(seq) \in Nat \ {0} /\ DOMAIN seq = 1 .. Len(seq)
      /\ DOMAIN Tail(seq) = 1 .. Len(seq) - 1
  BY <1>1, EmptySeq, LenProperties
<1>3. Elems(seq) = {Head(seq)} \cup Elems(Tail(seq))
  <2>1. ASSUME NEW i \in 1 .. Len(seq) PROVE seq[i] \in {Head(seq)} \cup Elems(Tail(seq))
    <3>1. CASE i = 1
      BY <3>1, <1>1
    <3>2. CASE i # 1
      <4>1. i - 1 \in 1 .. Len(seq) - 1 /\ Tail(seq)[i - 1] = seq[i]
        BY <3>2, <1>1, <1>2
      <4>2. QED
        BY <4>1, <1>2 DEF Elems
    <3>3. QED
      BY <3>1, <3>2
  <2>2. ASSUME NEW i \in 1 .. Len(seq) - 1 PROVE Tail(seq)[i] \in Elems(seq)
    <3>1. i + 1 \in 1 .. Len(seq) /\ Tail(seq)[i] = seq[i + 1]
      BY <1>1, <1>2
    <3>2. QED
      BY <3>1, <1>2 DEF Elems
  <2>3. Head(seq) \in Elems(seq)
    BY <1>1, <1>2 DEF Elems
  <2>4. QED
    BY <2>1, <2>2, <2>3, <1>2 DEF Elems
<1>4. ASSUME NoDuplicates(seq)
      PROVE  NoDuplicates(Tail(seq)) /\ Head(seq) \notin Elems(Tail(seq))
  <2>1. ASSUME NEW i \in 1 .. Len(seq) - 1, NEW j \in 1 .. Len(seq) - 1, i # j
        PROVE  Tail(seq)[i] # Tail(seq)[j]
    <3>1. i + 1 \in 1 .. Len(seq) /\ j + 1 \in 1 .. Len(seq) /\ i + 1 # j + 1
          /\ Tail(seq)[i] = seq[i + 1] /\ Tail(seq)[j] = seq[j + 1]
      BY <2>1, <1>1, <1>2
    <3>2. QED
      BY <3>1, <1>2, <1>4 DEF NoDuplicates
  <2>2. ASSUME NEW i \in 1 .. Len(seq) - 1 PROVE Tail(seq)[i] # Head(seq)
    <3>1. i + 1 \in 1 .. Len(seq) /\ 1 \in 1 .. Len(seq) /\ i + 1 # 1
          /\ Tail(seq)[i] = seq[i + 1]
      BY <1>1, <1>2
    <3>2. QED
      BY <3>1, <1>1, <1>2, <1>4 DEF NoDuplicates
  <2>3. QED
    BY <2>1, <2>2, <1>2 DEF NoDuplicates, Elems
<1>5. QED
  BY <1>1, <1>3, <1>4

\* Appending adds one element, and no repetition when it was not there.
LEMMA AppendElems ==
  ASSUME NEW S, NEW seq \in Seq(S), NEW e \in S
  PROVE  /\ Append(seq, e) \in Seq(S)
         /\ Append(seq, e) # <<>>
         /\ Elems(Append(seq, e)) = Elems(seq) \cup {e}
         /\ NoDuplicates(seq) /\ e \notin Elems(seq) => NoDuplicates(Append(seq, e))
<1>1. /\ Append(seq, e) \in Seq(S)
      /\ Len(Append(seq, e)) = Len(seq) + 1
      /\ \A i \in 1 .. Len(seq) : Append(seq, e)[i] = seq[i]
      /\ Append(seq, e)[Len(seq) + 1] = e
  BY AppendProperties
<1>2. Len(seq) \in Nat /\ DOMAIN seq = 1 .. Len(seq)
      /\ DOMAIN Append(seq, e) = 1 .. Len(seq) + 1
  BY <1>1, LenProperties
<1>3. Append(seq, e) # <<>>
  BY <1>1, <1>2, EmptySeq
<1>4. Elems(Append(seq, e)) = Elems(seq) \cup {e}
  BY <1>1, <1>2 DEF Elems
<1>5. ASSUME NoDuplicates(seq), e \notin Elems(seq) PROVE NoDuplicates(Append(seq, e))
  BY <1>5, <1>1, <1>2 DEF NoDuplicates, Elems
<1>6. QED
  BY <1>1, <1>3, <1>4, <1>5

-----------------------------------------------------------------------------
\* Before any operation the books are empty and nothing is locked.
LEMMA InitIInv == Init => IInv
<1> SUFFICES ASSUME Init PROVE IInv
  OBVIOUS
<1>1. TypeOK
  BY RolesGrantedAssumption DEF Init, TypeOK, PgTypeOK, NoWrites, PC, Untouched
<1>2. RolesLive /\ LocksExclusive
  BY RolesGrantedAssumption DEF Init, RolesLive, LocksExclusive, NoWrites, Pairs
<1>3. ASSUME NEW s \in Sessions
      PROVE  Control(s) /\ Books(s) /\ ChecksHold(s) /\ PreparedRolesHeld(s)
  <2>1. pc[s] = "idle" /\ own[s] = NoWrites /\ dropped[s] = {}
        /\ todo[s] = <<>> /\ granted[s] = <<>> /\ revoked[s] = <<>>
    BY <1>3 DEF Init
  <2>2. Control(s)
    BY <2>1 DEF Control, Running, Preparing
  <2>3. Books(s)
    BY <2>1, ElemsOfEmpty DEF Books, Preparing, NoWrites, Untouched
  <2>4. ChecksHold(s) /\ PreparedRolesHeld(s)
    BY <2>1 DEF ChecksHold, PreparedRolesHeld, Preparing
  <2>5. QED
    BY <2>2, <2>3, <2>4
<1>4. QED
  BY <1>1, <1>2, <1>3 DEF IInv

-----------------------------------------------------------------------------
(* Type correctness of a step. *)

\* What a loop takes next is a role, and the rest is a list of roles.
LEMMA HeadsTyped ==
  ASSUME IInv, NEW s \in Sessions
  PROVE  /\ todo[s] # <<>> => Head(todo[s]) \in Roles /\ Tail(todo[s]) \in Seq(Roles)
         /\ granted[s] # <<>> => Head(granted[s]) \in Roles /\ Tail(granted[s]) \in Seq(Roles)
         /\ revoked[s] # <<>> => Head(revoked[s]) \in Roles /\ Tail(revoked[s]) \in Seq(Roles)
<1>1. todo[s] \in Seq(Roles) /\ granted[s] \in Seq(Roles) /\ revoked[s] \in Seq(Roles)
  BY DEF IInv, TypeOK
<1>2. QED
  BY <1>1, TailElems

\* A written row changes nothing else.
LEMMA WriteEffect ==
  ASSUME PgTypeOK, NEW s \in Sessions, NEW p \in Pairs, NEW level \in Level,
         Write(s, p, level)
  PROVE  /\ own' \in [Sessions -> [Pairs -> Level \cup {Untouched}]]
         /\ own'[s][p] = level
         /\ \A q \in Pairs \ {p} : own'[s][q] = own[s][q]
         /\ \A u \in Sessions \ {s} : own'[u] = own[u]
  BY DEF PgTypeOK, Write

\* A REVOKE writes at most the row of its membership, which nobody else has locked.
LEMMA RevokeEffect ==
  ASSUME PgTypeOK, NEW s \in Sessions, NEW r \in Roles, NEW m \in Roles, Revoke(s, r, m)
  PROVE  /\ PgTypeOK'
         /\ UNCHANGED <<members, roles, dropped>>
         /\ MembershipHolders(s, r, m) = {} /\ SeesRole(s, r) /\ SeesRole(s, m)
         /\ IF SeesMember(s, r, m) THEN own'[s][<<r, m>>] = "none" ELSE own' = own
         /\ \A q \in Pairs \ {<<r, m>>} : own'[s][q] = own[s][q]
         /\ \A u \in Sessions \ {s} : own'[u] = own[u]
<1>1. <<r, m>> \in Pairs /\ "none" \in Level
  BY DEF Pairs, Level
<1>2. CASE SeesMember(s, r, m)
  <2>1. Write(s, <<r, m>>, "none") /\ UNCHANGED <<members, roles, dropped>>
    BY <1>2 DEF Revoke
  <2>2. QED
    BY <2>1, <1>1, <1>2, WriteEffect DEF PgTypeOK, Revoke, RevokeAccepted
<1>3. CASE ~SeesMember(s, r, m)
  BY <1>3 DEF PgTypeOK, Revoke, RevokeAccepted
<1>4. QED
  BY <1>2, <1>3

\* The provider only grants memberships it does not see.
LEMMA GrantEffect ==
  ASSUME PgTypeOK, NEW s \in Sessions, NEW r \in Roles, NEW m \in Roles,
         Grant(s, r, m, "member")
  PROVE  /\ PgTypeOK'
         /\ UNCHANGED <<members, roles, dropped>>
         /\ MembershipHolders(s, r, m) = {} /\ SeesRole(s, r) /\ SeesRole(s, m)
         /\ IF SeesMember(s, r, m) THEN own' = own ELSE own'[s][<<r, m>>] = "member"
         /\ \A q \in Pairs \ {<<r, m>>} : own'[s][q] = own[s][q]
         /\ \A u \in Sessions \ {s} : own'[u] = own[u]
<1>1. <<r, m>> \in Pairs /\ "member" \in Level
  BY DEF Pairs, Level
<1>2. members[<<r, m>>] \in Level /\ own[s][<<r, m>>] \in Level \cup {Untouched}
  BY <1>1 DEF PgTypeOK
<1>3. SeesMember(s, r, m) <=> Sees(s, <<r, m>>) \in {"member", "admin"}
  BY <1>2 DEF SeesMember, Sees, Level, Untouched
<1>4. CASE SeesMember(s, r, m)
  BY <1>3, <1>4 DEF PgTypeOK, Grant, GrantAccepted
<1>5. CASE ~SeesMember(s, r, m)
  <2>1. Write(s, <<r, m>>, "member") /\ UNCHANGED <<members, roles, dropped>>
    BY <1>3, <1>5 DEF Grant
  <2>2. QED
    BY <2>1, <1>1, <1>5, WriteEffect DEF PgTypeOK, Grant, GrantAccepted
<1>6. QED
  BY <1>4, <1>5

\* Every statement keeps the types.
LEMMA TypeStep == IInv /\ [Next]_vars => TypeOK'
<1> SUFFICES ASSUME IInv, [Next]_vars PROVE TypeOK'
  OBVIOUS
<1>a. TypeOK /\ PgTypeOK /\ \A s \in Sessions : Control(s)
  BY DEF IInv, TypeOK
<1> USE <1>a DEF TypeOK, GoTo, Skip
<1>1. ASSUME NEW s \in Sessions, NEW roleList \in RoleLists, NEW isDelete \in BOOLEAN,
             Begin(s, roleList, isDelete)
      PROVE  TypeOK'
  BY <1>1, RolesGrantedAssumption, EmptySeq DEF Begin, pgVars, PC, PgTypeOK
<1>2. ASSUME NEW s \in Sessions, CheckReverse(s) PROVE TypeOK'
  BY <1>2, HeadsTyped DEF CheckReverse, pgVars, PC, PgTypeOK
<1>3. ASSUME NEW s \in Sessions, RevokeReverse(s) PROVE TypeOK'
  <2>1. Head(todo[s]) \in Roles /\ Revoke(s, Admin, Head(todo[s]))
    BY <1>3, HeadsTyped DEF RevokeReverse, Control, Preparing
  <2>2. PgTypeOK'
    BY <2>1, RevokeEffect, RolesGrantedAssumption
  <2>3. Append(revoked[s], Head(todo[s])) \in Seq(Roles)
    BY <2>1, AppendElems
  <2>4. QED
    BY <1>3, <2>2, <2>3 DEF RevokeReverse, PC
<1>4. ASSUME NEW s \in Sessions, CheckGrant(s) PROVE TypeOK'
  <2>1. Tail(todo[s]) \in Seq(Roles)
    BY <1>4, HeadsTyped DEF CheckGrant, Control, Preparing
  <2>2. QED
    BY <1>4, <2>1 DEF CheckGrant, pgVars, PC, PgTypeOK
<1>5. ASSUME NEW s \in Sessions, GrantRole(s) PROVE TypeOK'
  <2>1. Head(todo[s]) \in Roles /\ Tail(todo[s]) \in Seq(Roles)
        /\ Grant(s, Head(todo[s]), Admin, "member")
    BY <1>5, HeadsTyped DEF GrantRole, Control, Preparing
  <2>2. PgTypeOK'
    BY <2>1, GrantEffect, RolesGrantedAssumption
  <2>3. Append(granted[s], Head(todo[s])) \in Seq(Roles)
    BY <2>1, AppendElems
  <2>4. QED
    BY <1>5, <2>1, <2>2, <2>3 DEF GrantRole, PC
<1>6. ASSUME NEW s \in Sessions, StartFn(s) \/ EndFn(s) PROVE TypeOK'
  BY <1>6 DEF StartFn, EndFn, pgVars, PC, PgTypeOK
<1>7. ASSUME NEW s \in Sessions, CheckGranted(s) \/ CheckRevoked(s) PROVE TypeOK'
  BY <1>7, HeadsTyped DEF CheckGranted, CheckRevoked, pgVars, PC, PgTypeOK
<1>8. ASSUME NEW s \in Sessions, RevokeGranted(s) PROVE TypeOK'
  <2>1. Head(granted[s]) \in Roles /\ Tail(granted[s]) \in Seq(Roles)
        /\ Revoke(s, Head(granted[s]), Admin)
    BY <1>8, HeadsTyped DEF RevokeGranted, Control
  <2>2. PgTypeOK'
    BY <2>1, RevokeEffect, RolesGrantedAssumption
  <2>3. QED
    BY <1>8, <2>1, <2>2 DEF RevokeGranted, PC
<1>9. ASSUME NEW s \in Sessions, GrantBack(s) PROVE TypeOK'
  <2>1. Head(revoked[s]) \in Roles /\ Tail(revoked[s]) \in Seq(Roles)
        /\ Grant(s, Admin, Head(revoked[s]), "member")
    BY <1>9, HeadsTyped DEF GrantBack, Control
  <2>2. PgTypeOK'
    BY <2>1, GrantEffect, RolesGrantedAssumption
  <2>3. QED
    BY <1>9, <2>1, <2>2 DEF GrantBack, PC
<1>10. ASSUME NEW s \in Sessions, Restored(s) PROVE TypeOK'
  BY <1>10 DEF Restored, pgVars, PC, PgTypeOK
<1>11. ASSUME NEW s \in Sessions, DropTarget(s) PROVE TypeOK'
  BY <1>11 DEF DropTarget, DropRole, Level, PC, SeesRole, PgTypeOK
<1>12. ASSUME NEW s \in Sessions, Commit(s) PROVE TypeOK'
  BY <1>12, EmptySeq DEF Commit, CommitTxn, Return, Sees, NoWrites, PC, PgTypeOK
<1>13. ASSUME NEW s \in Sessions, Rollback(s) PROVE TypeOK'
  BY <1>13, EmptySeq DEF Rollback, RollbackTxn, Return, NoWrites, PC, PgTypeOK
<1>14. CASE UNCHANGED vars
  BY <1>14 DEF vars, pgVars, opVars, PgTypeOK
<1>15. QED
  BY <1>1, <1>2, <1>3, <1>4, <1>5, <1>6, <1>7, <1>8, <1>9, <1>10, <1>11, <1>12,
     <1>13, <1>14 DEF Next, Step, Terminated

-----------------------------------------------------------------------------
(* The operations that do not act. *)

OwnUnchanged(u) ==
    /\ own'[u] = own[u] /\ dropped'[u] = dropped[u]
    /\ pc'[u] = pc[u] /\ list'[u] = list[u] /\ todo'[u] = todo[u]
    /\ granted'[u] = granted[u] /\ revoked'[u] = revoked[u] /\ drops'[u] = drops[u]
    /\ superusers' = superusers

\* Nothing that an operation's invariant mentions is changed by a step of
\* another one that commits nothing.
LEMMA Frame ==
  ASSUME IInv, NEW u \in Sessions, OwnUnchanged(u), UNCHANGED <<members, roles>>
  PROVE  SInv(u)'
<1>1. Control(u) /\ Books(u) /\ ChecksHold(u) /\ PreparedRolesHeld(u)
  BY DEF IInv
<1>2. Control(u)'
  BY <1>1 DEF Control, OwnUnchanged, Running, Preparing
<1>3. Books(u)'
  BY <1>1 DEF Books, OwnUnchanged, Preparing
<1>4. ChecksHold(u)' /\ PreparedRolesHeld(u)'
  BY <1>1 DEF ChecksHold, PreparedRolesHeld, OwnUnchanged, Preparing, Needed, SeesMember, Sees
<1>5. QED
  BY <1>2, <1>3, <1>4 DEF SInv

\* A commit keeps every membership between roles that stay, and creates none.
LEMMA CommitKeeps ==
  ASSUME IInv, NEW s \in Sessions, Commit(s), NEW p \in Pairs
  PROVE  /\ members[p] = "none" => members'[p] = "none"
         /\ p[1] \in roles' /\ p[2] \in roles' => (members'[p] = "none") = (members[p] = "none")
         /\ p[1] \in roles' /\ p[2] \in roles' => p[1] \in roles /\ p[2] \in roles
         /\ own[s][p] = Untouched => members'[p] = members[p]
<1>1. Books(s) /\ granted[s] = <<>> /\ revoked[s] = <<>>
  BY DEF IInv, Control, Commit
<1>2. members'[p] = Sees(s, p) /\ roles' = roles \ dropped[s]
  BY DEF Commit, CommitTxn
<1>3. own[s][p] # Untouched =>
        \/ (p[1] \in dropped[s] \/ p[2] \in dropped[s]) /\ own[s][p] = "none"
        \/ members[p] = "none" /\ own[s][p] = "none"
        \/ members[p] # "none" /\ own[s][p] # "none"
  BY <1>1, ElemsOfEmpty DEF Books
<1>4. QED
  BY <1>2, <1>3 DEF Sees

\* An operation's invariant survives the commit of another one.
LEMMA FrameCommit ==
  ASSUME IInv, NEW s \in Sessions, Commit(s), NEW u \in Sessions, u # s
  PROVE  SInv(u)'
<1>1. Control(u) /\ Books(u) /\ ChecksHold(u) /\ PreparedRolesHeld(u)
      /\ LocksExclusive /\ RolesLive /\ TypeOK
  BY DEF IInv
<1>2. /\ own'[u] = own[u] /\ dropped'[u] = dropped[u] /\ pc'[u] = pc[u]
      /\ list'[u] = list[u] /\ todo'[u] = todo[u] /\ granted'[u] = granted[u]
      /\ revoked'[u] = revoked[u] /\ drops'[u] = drops[u] /\ superusers' = superusers
      /\ roles' = roles \ dropped[s]
  BY <1>1 DEF Commit, CommitTxn, Return, GoTo, TypeOK, PgTypeOK
<1>3. \A p \in Pairs : own[u][p] # Untouched =>
        members'[p] = members[p] /\ p[1] \notin dropped[s] /\ p[2] \notin dropped[s]
  BY <1>1, CommitKeeps DEF LocksExclusive
<1>4. Control(u)'
  <2>1. \A p \in Pairs : p[1] \in dropped[u] \/ p[2] \in dropped[u] =>
          own[u][p] = "none" \/ (own[u][p] = Untouched /\ members'[p] = "none")
    BY <1>1, CommitKeeps DEF Control
  <2>2. QED
    BY <2>1, <1>1, <1>2 DEF Control, Running, Preparing
<1>5. Books(u)'
  BY <1>1, <1>2, <1>3 DEF Books, Preparing
<1>6. Admin \in Roles /\ Admin \in roles'
  BY <1>1, <1>2, RolesGrantedAssumption DEF RolesLive
<1>7. ASSUME NEW p \in Pairs, p[1] \in roles', p[2] \in roles'
      PROVE  (Sees(u, p))' = "none" <=> Sees(u, p) = "none"
  BY <1>2, <1>7, CommitKeeps DEF Sees
<1>8. ChecksHold(u)'
  <2>1. CASE pc[u] = "revokeReverse" /\ Head(todo[u]) \in roles'
    <3>1. Head(todo[u]) \in Roles /\ Head(todo[u]) \in roles
      BY <2>1, <1>1, <1>2, HeadsTyped DEF Control, Preparing
    <3>2. <<Admin, Head(todo[u])>> \in Pairs
      BY <3>1, <1>6 DEF Pairs
    <3>3. SeesMember(u, Admin, Head(todo[u]))
      BY <2>1, <3>1, <1>1 DEF ChecksHold
    <3>4. SeesMember(u, Admin, Head(todo[u]))'
      BY <2>1, <3>2, <3>3, <1>2, <1>6, <1>7 DEF SeesMember
    <3>5. QED
      BY <2>1, <3>4, <1>2 DEF ChecksHold
  <2>2. CASE pc[u] = "grantRole"
    <3>1. <<Head(todo[u]), Admin>> \in Pairs
      BY <2>2, <1>1, <1>6, HeadsTyped DEF Control, Preparing, Pairs
    <3>2. Sees(u, <<Head(todo[u]), Admin>>) = "none"
      BY <2>2, <1>1 DEF ChecksHold, SeesMember
    <3>3. (Sees(u, <<Head(todo[u]), Admin>>))' = "none"
      BY <3>1, <3>2, <1>2, CommitKeeps DEF Sees
    <3>4. QED
      BY <2>2, <3>3, <1>2 DEF ChecksHold, SeesMember
  <2>3. QED
    BY <2>1, <2>2, <1>2 DEF ChecksHold
<1>9. PreparedRolesHeld(u)'
  <2> SUFFICES ASSUME Preparing(u) \/ pc[u] = "fn",
                      NEW r \in Needed(u), r \in roles', r \notin Elems(todo[u])
               PROVE  (SeesMember(u, r, Admin))'
    BY <1>2 DEF PreparedRolesHeld, Preparing, Needed
  <2>1. r \in roles /\ r \in Roles
    BY <1>1, <1>2 DEF TypeOK, PgTypeOK
  <2>2. SeesMember(u, r, Admin) /\ <<r, Admin>> \in Pairs
    BY <1>1, <1>6, <2>1 DEF PreparedRolesHeld, Pairs
  <2>3. QED
    BY <2>2, <1>6, <1>7 DEF SeesMember
<1>10. QED
  BY <1>4, <1>5, <1>8, <1>9 DEF SInv

-----------------------------------------------------------------------------
(* The operation that acts: steps that write no row. *)

\* An operation begins with empty books.
LEMMA BeginSafe ==
  ASSUME IInv, NEW s \in Sessions, NEW roleList \in RoleLists, NEW isDelete \in BOOLEAN,
         Begin(s, roleList, isDelete)
  PROVE  SInv(s)'
<1>1. Control(s) /\ Books(s) /\ TypeOK
  BY DEF IInv
<1>2. /\ own'[s] = NoWrites /\ dropped'[s] = {} /\ granted'[s] = <<>> /\ revoked'[s] = <<>>
      /\ pc'[s] = "prepare" /\ list'[s] = roleList /\ superusers' = superusers
      /\ todo'[s] = (IF Admin \in superusers THEN <<>> ELSE roleList)
      /\ drops'[s] = isDelete /\ (isDelete => Len(roleList) = 1 /\ roleList[1] # Admin)
  BY <1>1 DEF Begin, pgVars, Control, Running, GoTo, TypeOK, PgTypeOK
<1>3. Control(s)'
  BY <1>2 DEF Control, Running, Preparing
<1>4. Books(s)'
  BY <1>2, ElemsOfEmpty, RolesGrantedAssumption DEF Books, NoWrites, Preparing, Pairs, Untouched
<1>5. ChecksHold(s)' /\ PreparedRolesHeld(s)'
  BY <1>2 DEF ChecksHold, PreparedRolesHeld, Needed
<1>6. QED
  BY <1>3, <1>4, <1>5 DEF SInv

\* The test for the reverse membership tells what the REVOKE will find.
LEMMA CheckReverseSafe ==
  ASSUME IInv, NEW s \in Sessions, CheckReverse(s)
  PROVE  SInv(s)'
<1> DEFINE r == Head(todo[s])
<1>1. Control(s) /\ Books(s) /\ PreparedRolesHeld(s) /\ TypeOK
  BY DEF IInv
<1>2. /\ UNCHANGED <<members, roles, own, dropped, superusers, list, granted, revoked, drops>>
      /\ pc[s] = "prepare" /\ todo[s] # <<>>
  BY DEF CheckReverse, pgVars
<1>3. r \in Roles /\ Elems(todo[s]) = {r} \cup Elems(Tail(todo[s]))
  BY <1>1, <1>2, TailElems DEF TypeOK
<1>4. Books(s)'
  BY <1>1, <1>2 DEF Books, Preparing
<1>5. CASE r \in superusers \cup {Admin}
  <2>1. pc'[s] = "prepare" /\ todo'[s] = Tail(todo[s])
    BY <1>1, <1>5 DEF CheckReverse, Skip, GoTo, TypeOK
  <2>2. Control(s)'
    BY <1>1, <1>2, <2>1 DEF Control, Running, Preparing, CheckReverse
  <2>3. PreparedRolesHeld(s)'
    BY <1>1, <1>2, <1>3, <1>5, <2>1
    DEF PreparedRolesHeld, Needed, Preparing, SeesMember, Sees
  <2>4. QED
    BY <1>4, <2>1, <2>2, <2>3 DEF SInv, ChecksHold
<1>6. CASE r \notin superusers \cup {Admin}
  <2>1. /\ todo' = todo
        /\ pc'[s] = IF SeesMember(s, Admin, r) THEN "revokeReverse" ELSE "checkGrant"
    BY <1>1, <1>6 DEF CheckReverse, GoTo, TypeOK
  <2>2. Control(s)'
    BY <1>1, <1>2, <1>6, <2>1 DEF Control, Running, Preparing
  <2>3. PreparedRolesHeld(s)'
    BY <1>1, <1>2, <2>1 DEF PreparedRolesHeld, Needed, Preparing, SeesMember, Sees
  <2>4. ChecksHold(s)'
    BY <1>2, <2>1 DEF ChecksHold, SeesMember, Sees
  <2>5. QED
    BY <1>4, <2>2, <2>3, <2>4 DEF SInv
<1>7. QED
  BY <1>5, <1>6

\* The test for the membership tells what the GRANT will find.
LEMMA CheckGrantSafe ==
  ASSUME IInv, NEW s \in Sessions, CheckGrant(s)
  PROVE  SInv(s)'
<1> DEFINE r == Head(todo[s])
<1>1. Control(s) /\ Books(s) /\ PreparedRolesHeld(s) /\ TypeOK
  BY DEF IInv
<1>2. /\ UNCHANGED <<members, roles, own, dropped, superusers, list, granted, revoked, drops>>
      /\ pc[s] = "checkGrant"
  BY DEF CheckGrant, pgVars
<1>3. todo[s] # <<>> /\ r \notin superusers \cup {Admin}
  BY <1>1, <1>2 DEF Control, Preparing
<1>4. r \in Roles /\ Elems(todo[s]) = {r} \cup Elems(Tail(todo[s]))
  BY <1>1, <1>3, TailElems DEF TypeOK
<1>5. Books(s)'
  <2>1. Preparing(s)
    BY <1>2 DEF Preparing
  <2>2. QED
    BY <1>1, <1>2, <2>1 DEF Books
<1>6. CASE SeesMember(s, r, Admin)
  <2>1. pc'[s] = "prepare" /\ todo'[s] = Tail(todo[s])
    BY <1>1, <1>6 DEF CheckGrant, Skip, GoTo, TypeOK
  <2>2. Control(s)'
    BY <1>1, <1>2, <1>3, <2>1 DEF Control, Running, Preparing
  <2>3. PreparedRolesHeld(s)'
    BY <1>1, <1>2, <1>4, <1>6, <2>1
    DEF PreparedRolesHeld, Needed, Preparing, SeesMember, Sees
  <2>4. QED
    BY <1>5, <2>1, <2>2, <2>3 DEF SInv, ChecksHold
<1>7. CASE ~SeesMember(s, r, Admin)
  <2>1. todo' = todo /\ pc'[s] = "grantRole"
    BY <1>1, <1>7 DEF CheckGrant, GoTo, TypeOK
  <2>2. Control(s)'
    BY <1>1, <1>2, <1>3, <2>1 DEF Control, Running, Preparing
  <2>3. PreparedRolesHeld(s)' /\ ChecksHold(s)'
    BY <1>1, <1>2, <1>7, <2>1
    DEF PreparedRolesHeld, Needed, Preparing, SeesMember, Sees, ChecksHold
  <2>4. QED
    BY <1>5, <2>2, <2>3 DEF SInv
<1>8. QED
  BY <1>6, <1>7

\* The callback begins and ends with the roles held, and the restore ends with empty books.
LEMMA FnSafe ==
  ASSUME IInv, NEW s \in Sessions, StartFn(s) \/ EndFn(s) \/ Restored(s)
  PROVE  SInv(s)'
<1>1. Control(s) /\ Books(s) /\ PreparedRolesHeld(s) /\ TypeOK
  BY DEF IInv
<1>2. UNCHANGED <<members, roles, own, dropped, superusers, list, todo, granted, revoked, drops>>
  BY DEF StartFn, EndFn, Restored, pgVars
<1>3. \/ pc[s] = "prepare" /\ todo[s] = <<>> /\ pc'[s] = "fn"
      \/ pc[s] = "fn" /\ pc'[s] = "restore"
      \/ /\ pc[s] = "restore" /\ granted[s] = <<>> /\ revoked[s] = <<>>
         /\ pc'[s] = IF drops[s] THEN "drop" ELSE "commit"
  BY <1>1 DEF StartFn, EndFn, Restored, GoTo, TypeOK
<1>4. Control(s)'
  BY <1>1, <1>2, <1>3 DEF Control, Running, Preparing
<1>5. Books(s)'
  BY <1>1, <1>2, <1>3 DEF Books, Preparing
<1>6. PreparedRolesHeld(s)' /\ ChecksHold(s)'
  BY <1>1, <1>2, <1>3 DEF PreparedRolesHeld, Needed, Preparing, SeesMember, Sees, ChecksHold
<1>7. QED
  BY <1>4, <1>5, <1>6 DEF SInv

\* The restore tests a membership that the operation has granted.
LEMMA CheckGrantedSafe ==
  ASSUME IInv, NEW s \in Sessions, CheckGranted(s)
  PROVE  SInv(s)'
<1> DEFINE r == Head(granted[s])
<1>1. Control(s) /\ Books(s) /\ TypeOK
  BY DEF IInv
<1>2. /\ UNCHANGED <<members, roles, own, dropped, superusers, list, todo, revoked, drops>>
      /\ pc[s] = "restore" /\ granted[s] # <<>>
  BY DEF CheckGranted, pgVars
<1>3. r \in Elems(granted[s])
  BY <1>1, <1>2, TailElems DEF TypeOK
<1>4. SeesMember(s, r, Admin)
  BY <1>1, <1>3 DEF Books, SeesMember, Sees, Untouched
<1>5. pc'[s] = "revokeGranted" /\ granted' = granted
  BY <1>1, <1>4 DEF CheckGranted, GoTo, TypeOK
<1>6. Control(s)' /\ ChecksHold(s)' /\ PreparedRolesHeld(s)'
  BY <1>1, <1>2, <1>5 DEF Control, Running, Preparing, ChecksHold, PreparedRolesHeld
<1>7. Books(s)'
  BY <1>1, <1>2, <1>5 DEF Books, Preparing
<1>8. QED
  BY <1>6, <1>7 DEF SInv

\* The restore tests a membership that the operation has revoked.
LEMMA CheckRevokedSafe ==
  ASSUME IInv, NEW s \in Sessions, CheckRevoked(s)
  PROVE  SInv(s)'
<1> DEFINE r == Head(revoked[s])
<1>1. Control(s) /\ Books(s) /\ TypeOK /\ Admin \in Roles
  BY RolesGrantedAssumption DEF IInv
<1>2. /\ UNCHANGED <<members, roles, own, dropped, superusers, list, todo, granted, drops>>
      /\ pc[s] = "restore" /\ granted[s] = <<>> /\ revoked[s] # <<>>
  BY DEF CheckRevoked, pgVars
<1>3. r \in Roles /\ r \in Elems(revoked[s])
  BY <1>1, <1>2, TailElems DEF TypeOK
<1>4. own[s][<<Admin, r>>] = "none" /\ <<Admin, r>> \in Pairs
  BY <1>1, <1>3 DEF Books, Pairs
<1>5. r \in roles /\ dropped[s] = {}
  BY <1>1, <1>2, <1>4 DEF Books, Control, Untouched
<1>6. SeesRole(s, r) /\ ~SeesMember(s, Admin, r)
  BY <1>4, <1>5 DEF SeesRole, SeesMember, Sees, Untouched
<1>7. pc'[s] = "grantBack" /\ revoked' = revoked
  BY <1>1, <1>6 DEF CheckRevoked, GoTo, TypeOK
<1>8. Control(s)' /\ ChecksHold(s)' /\ PreparedRolesHeld(s)'
  BY <1>1, <1>2, <1>7 DEF Control, Running, Preparing, ChecksHold, PreparedRolesHeld
<1>9. Books(s)'
  BY <1>1, <1>2, <1>7 DEF Books, Preparing
<1>10. QED
  BY <1>8, <1>9 DEF SInv

-----------------------------------------------------------------------------
(* The operation that acts: steps that write a row. *)

\* A row is only written when no other transaction holds it or has dropped one
\* of its roles.
LEMMA WriteLocks ==
  ASSUME IInv, NEW s \in Sessions, NEW r \in Roles, NEW m \in Roles,
         Revoke(s, r, m) \/ Grant(s, r, m, "member")
  PROVE  LocksExclusive' /\ RolesLive'
<1>1. LocksExclusive /\ RolesLive /\ PgTypeOK
  BY DEF IInv, TypeOK
<1>2. /\ UNCHANGED <<members, roles, dropped>>
      /\ MembershipHolders(s, r, m) = {}
      /\ \A q \in Pairs \ {<<r, m>>} : own'[s][q] = own[s][q]
      /\ \A u \in Sessions \ {s} : own'[u] = own[u]
  <2>1. CASE Revoke(s, r, m)
    BY <2>1, <1>1, RevokeEffect
  <2>2. CASE Grant(s, r, m, "member")
    BY <2>2, <1>1, GrantEffect
  <2>3. QED
    BY <2>1, <2>2
<1>3. ASSUME NEW u \in Sessions \ {s}
      PROVE  own[u][<<r, m>>] = Untouched /\ r \notin dropped[u] /\ m \notin dropped[u]
  BY <1>2, <1>3 DEF MembershipHolders, RowHolders, DropHolders
<1>4. ASSUME NEW u \in Sessions, NEW v \in Sessions, u # v, NEW p \in Pairs,
             own'[u][p] # Untouched
      PROVE  own'[v][p] = Untouched /\ p[1] \notin dropped[v] /\ p[2] \notin dropped[v]
  <2>1. CASE p = <<r, m>> /\ u = s
    BY <2>1, <1>2, <1>3, <1>4
  <2>2. CASE p = <<r, m>> /\ u # s
    BY <2>2, <1>2, <1>3, <1>4
  <2>3. CASE p # <<r, m>>
    <3>1. own'[u][p] = own[u][p] /\ own'[v][p] = own[v][p]
      BY <2>3, <1>2
    <3>2. QED
      BY <3>1, <1>1, <1>4 DEF LocksExclusive
  <2>4. QED
    BY <2>1, <2>2, <2>3
<1>5. QED
  BY <1>1, <1>2, <1>4 DEF LocksExclusive, RolesLive

\* Revoking the reverse membership enters it in `revoked`.
LEMMA RevokeReverseSafe ==
  ASSUME IInv, NEW s \in Sessions, RevokeReverse(s)
  PROVE  SInv(s)'
<1> DEFINE r == Head(todo[s])
           q == <<Admin, r>>
<1>1. Control(s) /\ Books(s) /\ PreparedRolesHeld(s) /\ ChecksHold(s) /\ TypeOK
      /\ PgTypeOK /\ Admin \in Roles
  BY RolesGrantedAssumption DEF IInv, TypeOK
<1>2. /\ pc[s] = "revokeReverse" /\ Revoke(s, Admin, r)
      /\ revoked'[s] = Append(revoked[s], r) /\ pc'[s] = "checkGrant"
      /\ UNCHANGED <<superusers, list, todo, granted, drops>>
  BY <1>1 DEF RevokeReverse, GoTo, TypeOK
<1>3. todo[s] # <<>> /\ r \notin superusers \cup {Admin} /\ dropped[s] = {}
  BY <1>1, <1>2 DEF Control, Preparing
<1>4. r \in Roles /\ q \in Pairs
  BY <1>1, <1>3, HeadsTyped DEF Pairs
<1>5. /\ UNCHANGED <<members, roles, dropped>>
      /\ SeesRole(s, Admin) /\ SeesRole(s, r)
      /\ IF SeesMember(s, Admin, r) THEN own'[s][q] = "none" ELSE own' = own
      /\ \A p \in Pairs \ {q} : own'[s][p] = own[s][p]
  BY <1>1, <1>2, <1>4, RevokeEffect
\* The check made before the statement still holds, so the row goes, and the
\* transaction had not touched it.
<1>6. SeesMember(s, Admin, r) /\ own'[s][q] = "none"
  BY <1>1, <1>2, <1>5 DEF ChecksHold, SeesRole
<1>7. own[s][q] = Untouched /\ members[q] # "none"
  BY <1>1, <1>2, <1>3, <1>4, <1>6 DEF Books, Preparing, SeesMember, Sees
<1>8. /\ Elems(revoked'[s]) = Elems(revoked[s]) \cup {r}
      /\ NoDuplicates(revoked'[s])
  <2>1. r \notin Elems(revoked[s])
    BY <1>1, <1>7 DEF Books, Untouched
  <2>2. QED
    BY <2>1, <1>1, <1>2, <1>4, AppendElems DEF Books, TypeOK
<1>9. Control(s)'
  BY <1>1, <1>2, <1>3, <1>5 DEF Control, Running, Preparing
<1>10. Books(s)'
  <2>1. \A x \in Elems(granted'[s]) : x # Admin /\ own'[s][<<x, Admin>>] = "member"
    <3>1. \A x \in Elems(granted[s]) : x \in Roles /\ <<x, Admin>> \in Pairs \ {q}
      BY <1>1, <1>3, ElemsInSet DEF Books, TypeOK, Pairs
    <3>2. QED
      BY <3>1, <1>1, <1>2, <1>5 DEF Books
  <2>2. \A x \in Elems(revoked'[s]) : x # Admin /\ own'[s][<<Admin, x>>] = "none"
    <3>1. \A x \in Elems(revoked[s]) : <<Admin, x>> \in Pairs
      BY <1>1, ElemsInSet DEF TypeOK, Pairs
    <3>2. QED
      BY <3>1, <1>1, <1>3, <1>5, <1>6, <1>8 DEF Books
  <2>3. ASSUME NEW p \in Pairs, own'[s][p] # Untouched
        PROVE  /\ p[1] \in roles /\ p[2] \in roles
               /\ \/ /\ p[1] # Admin /\ p[2] = Admin
                     /\ members[p] = "none"
                     /\ own'[s][p] # "none" => p[1] \in Elems(granted[s])
                  \/ /\ p[1] = Admin /\ p[2] # Admin
                     /\ members[p] # "none"
                     /\ own'[s][p] = "none" => p[2] \in Elems(revoked'[s])
    <3>1. CASE p = q
      BY <3>1, <1>3, <1>5, <1>7, <1>8 DEF SeesRole
    <3>2. CASE p # q
      BY <3>2, <2>3, <1>1, <1>3, <1>5, <1>8 DEF Books
    <3>3. QED
      BY <3>1, <3>2
  <2>4. \A x \in Roles \ {Admin} : /\ own'[s][<<x, Admin>>] # "none"
                                   /\ own'[s][<<Admin, x>>] \in {Untouched, "none"}
    <3>1. \A x \in Roles \ {Admin} : <<x, Admin>> \in Pairs \ {q} /\ <<Admin, x>> \in Pairs
      BY <1>1 DEF Pairs
    <3>2. Preparing(s)
      BY <1>2 DEF Preparing
    <3>3. QED
      BY <3>1, <3>2, <1>1, <1>5, <1>6 DEF Books
  <2>5. QED
    BY <2>1, <2>2, <2>3, <2>4, <1>1, <1>2, <1>5, <1>8 DEF Books
<1>11. PreparedRolesHeld(s)'
  <2> SUFFICES ASSUME NEW x \in Needed(s), x \in roles, x \notin Elems(todo[s])
               PROVE  SeesMember(s, x, Admin)'
    BY <1>2, <1>5 DEF PreparedRolesHeld, Needed
  <2>1. SeesMember(s, x, Admin)
    BY <1>1, <1>2 DEF PreparedRolesHeld, Preparing
  <2>2. x # Admin /\ x \in Roles
    BY <1>1 DEF Needed, TypeOK, PgTypeOK
  <2>3. <<x, Admin>> \in Pairs \ {q}
    BY <2>2, <1>1 DEF Pairs
  <2>4. QED
    BY <2>1, <2>3, <1>5 DEF SeesMember, Sees
<1>12. QED
  BY <1>2, <1>9, <1>10, <1>11 DEF SInv, ChecksHold

\* Granting a role enters it in `granted`.
LEMMA GrantRoleSafe ==
  ASSUME IInv, NEW s \in Sessions, GrantRole(s)
  PROVE  SInv(s)'
<1> DEFINE r == Head(todo[s])
           q == <<r, Admin>>
<1>1. Control(s) /\ Books(s) /\ PreparedRolesHeld(s) /\ ChecksHold(s) /\ TypeOK
      /\ PgTypeOK /\ Admin \in Roles
  BY RolesGrantedAssumption DEF IInv, TypeOK
<1>2. /\ pc[s] = "grantRole" /\ Grant(s, r, Admin, "member")
      /\ granted'[s] = Append(granted[s], r) /\ pc'[s] = "prepare"
      /\ todo'[s] = Tail(todo[s])
      /\ UNCHANGED <<superusers, list, revoked, drops>>
  BY <1>1 DEF GrantRole, GoTo, Skip, TypeOK
<1>3. todo[s] # <<>> /\ r \notin superusers \cup {Admin} /\ Admin \notin superusers
      /\ dropped[s] = {}
  BY <1>1, <1>2 DEF Control, Preparing
<1>4. r \in Roles /\ q \in Pairs /\ Elems(todo[s]) = {r} \cup Elems(Tail(todo[s]))
  BY <1>1, <1>3, TailElems DEF TypeOK, Pairs
\* The check still holds: the row is not there, and the transaction had not
\* touched it.
<1>5. ~SeesMember(s, r, Admin)
  BY <1>1, <1>2 DEF ChecksHold
<1>6. /\ UNCHANGED <<members, roles, dropped>>
      /\ SeesRole(s, Admin) /\ SeesRole(s, r)
      /\ own'[s][q] = "member"
      /\ \A p \in Pairs \ {q} : own'[s][p] = own[s][p]
  BY <1>1, <1>2, <1>4, <1>5, GrantEffect
<1>7. own[s][q] = Untouched /\ members[q] = "none"
  BY <1>1, <1>2, <1>3, <1>4, <1>5 DEF Books, Preparing, SeesMember, Sees
<1>8. /\ Elems(granted'[s]) = Elems(granted[s]) \cup {r}
      /\ NoDuplicates(granted'[s])
  <2>1. r \notin Elems(granted[s])
    BY <1>1, <1>7 DEF Books, Untouched
  <2>2. QED
    BY <2>1, <1>1, <1>2, <1>4, AppendElems DEF Books, TypeOK
<1>9. Control(s)'
  BY <1>1, <1>2, <1>3, <1>6 DEF Control, Running, Preparing
<1>10. Books(s)'
  <2>1. \A x \in Elems(granted'[s]) : x # Admin /\ own'[s][<<x, Admin>>] = "member"
    <3>1. \A x \in Elems(granted[s]) : <<x, Admin>> \in Pairs
      BY <1>1, ElemsInSet DEF TypeOK, Pairs
    <3>2. QED
      BY <3>1, <1>1, <1>3, <1>6, <1>8 DEF Books
  <2>2. \A x \in Elems(revoked'[s]) : x # Admin /\ own'[s][<<Admin, x>>] = "none"
    <3>1. \A x \in Elems(revoked[s]) : <<Admin, x>> \in Pairs \ {q}
      BY <1>1, <1>3, ElemsInSet DEF Books, TypeOK, Pairs
    <3>2. QED
      BY <3>1, <1>1, <1>2, <1>6 DEF Books
  <2>3. ASSUME NEW p \in Pairs, own'[s][p] # Untouched
        PROVE  /\ p[1] \in roles /\ p[2] \in roles
               /\ \/ /\ p[1] # Admin /\ p[2] = Admin
                     /\ members[p] = "none"
                     /\ own'[s][p] # "none" => p[1] \in Elems(granted'[s])
                  \/ /\ p[1] = Admin /\ p[2] # Admin
                     /\ members[p] # "none"
                     /\ own'[s][p] = "none" => p[2] \in Elems(revoked[s])
    <3>1. CASE p = q
      BY <3>1, <1>3, <1>6, <1>7, <1>8 DEF SeesRole
    <3>2. CASE p # q
      BY <3>2, <2>3, <1>1, <1>3, <1>6, <1>8 DEF Books
    <3>3. QED
      BY <3>1, <3>2
  <2>4. \A x \in Roles \ {Admin} : /\ own'[s][<<x, Admin>>] # "none"
                                   /\ own'[s][<<Admin, x>>] \in {Untouched, "none"}
    <3>1. \A x \in Roles \ {Admin} : <<Admin, x>> \in Pairs \ {q} /\ <<x, Admin>> \in Pairs
      BY <1>1, <1>3 DEF Pairs
    <3>2. Preparing(s)
      BY <1>2 DEF Preparing
    <3>3. QED
      BY <3>1, <3>2, <1>1, <1>6 DEF Books
  <2>5. QED
    BY <2>1, <2>2, <2>3, <2>4, <1>1, <1>2, <1>6, <1>8 DEF Books
<1>11. PreparedRolesHeld(s)'
  <2> SUFFICES ASSUME NEW x \in Needed(s), x \in roles, x \notin Elems(Tail(todo[s]))
               PROVE  SeesMember(s, x, Admin)'
    BY <1>2, <1>6 DEF PreparedRolesHeld, Needed
  <2>1. x \in Roles /\ <<x, Admin>> \in Pairs
    BY <1>1 DEF TypeOK, PgTypeOK, Pairs
  <2>2. CASE x = r
    BY <2>2, <1>6 DEF SeesMember, Sees, Untouched
  <2>3. CASE x # r
    <3>1. SeesMember(s, x, Admin)
      BY <2>3, <1>1, <1>2, <1>4 DEF PreparedRolesHeld, Preparing
    <3>2. QED
      BY <3>1, <2>1, <2>3, <1>6 DEF SeesMember, Sees
  <2>4. QED
    BY <2>2, <2>3
<1>12. QED
  BY <1>2, <1>9, <1>10, <1>11 DEF SInv, ChecksHold

\* Taking back what was granted strikes it from `granted`.
LEMMA RevokeGrantedSafe ==
  ASSUME IInv, NEW s \in Sessions, RevokeGranted(s)
  PROVE  SInv(s)'
<1> DEFINE r == Head(granted[s])
           q == <<r, Admin>>
<1>1. Control(s) /\ Books(s) /\ TypeOK /\ PgTypeOK /\ Admin \in Roles
  BY RolesGrantedAssumption DEF IInv, TypeOK
<1>2. /\ pc[s] = "revokeGranted" /\ Revoke(s, r, Admin)
      /\ granted'[s] = Tail(granted[s]) /\ pc'[s] = "restore"
      /\ UNCHANGED <<superusers, list, todo, revoked, drops>>
  BY <1>1 DEF RevokeGranted, GoTo, TypeOK
<1>3. granted[s] # <<>> /\ dropped[s] = {}
  BY <1>1, <1>2 DEF Control
<1>4. /\ r \in Roles /\ q \in Pairs
      /\ Elems(granted[s]) = {r} \cup Elems(granted'[s])
      /\ NoDuplicates(granted'[s]) /\ r \notin Elems(granted'[s])
  BY <1>1, <1>2, <1>3, TailElems DEF TypeOK, Pairs, Books
<1>5. r # Admin /\ own[s][q] = "member"
  BY <1>1, <1>4 DEF Books
<1>6. /\ UNCHANGED <<members, roles, dropped>>
      /\ SeesRole(s, Admin) /\ SeesRole(s, r)
      /\ own'[s][q] = "none"
      /\ \A p \in Pairs \ {q} : own'[s][p] = own[s][p]
  <2>1. SeesMember(s, r, Admin)
    BY <1>5 DEF SeesMember, Sees, Untouched
  <2>2. QED
    BY <2>1, <1>1, <1>2, <1>4, RevokeEffect
<1>7. Control(s)' /\ ChecksHold(s)' /\ PreparedRolesHeld(s)'
  BY <1>1, <1>2, <1>6 DEF Control, Running, Preparing, ChecksHold, PreparedRolesHeld
<1>8. Books(s)'
  <2>1. \A x \in Elems(granted'[s]) : x # Admin /\ own'[s][<<x, Admin>>] = "member"
    <3>1. \A x \in Elems(granted'[s]) : <<x, Admin>> \in Pairs \ {q}
      BY <1>1, <1>4, ElemsInSet DEF TypeOK, Pairs
    <3>2. QED
      BY <3>1, <1>1, <1>4, <1>6 DEF Books
  <2>2. \A x \in Elems(revoked'[s]) : x # Admin /\ own'[s][<<Admin, x>>] = "none"
    <3>1. \A x \in Elems(revoked[s]) : <<Admin, x>> \in Pairs \ {q}
      BY <1>1, <1>5, ElemsInSet DEF Books, TypeOK, Pairs
    <3>2. QED
      BY <3>1, <1>1, <1>2, <1>6 DEF Books
  <2>3. ASSUME NEW p \in Pairs, own'[s][p] # Untouched
        PROVE  /\ p[1] \in roles /\ p[2] \in roles
               /\ \/ /\ p[1] # Admin /\ p[2] = Admin
                     /\ members[p] = "none"
                     /\ own'[s][p] # "none" => p[1] \in Elems(granted'[s])
                  \/ /\ p[1] = Admin /\ p[2] # Admin
                     /\ members[p] # "none"
                     /\ own'[s][p] = "none" => p[2] \in Elems(revoked[s])
    <3>1. CASE p = q
      BY <3>1, <1>1, <1>3, <1>5, <1>6 DEF Books, Untouched
    <3>2. CASE p # q
      <4>1. own[s][p] # Untouched
        BY <3>2, <2>3, <1>6
      <4>2. p[2] = Admin => p[1] # r
        BY <3>2 DEF Pairs
      <4>3. QED
        BY <4>1, <4>2, <3>2, <1>1, <1>3, <1>4, <1>6 DEF Books
    <3>3. QED
      BY <3>1, <3>2
  <2>4. QED
    BY <2>1, <2>2, <2>3, <1>1, <1>2, <1>4, <1>6 DEF Books, Preparing
<1>9. QED
  BY <1>7, <1>8 DEF SInv

\* Granting back what was revoked strikes it from `revoked`.
LEMMA GrantBackSafe ==
  ASSUME IInv, NEW s \in Sessions, GrantBack(s)
  PROVE  SInv(s)'
<1> DEFINE r == Head(revoked[s])
           q == <<Admin, r>>
<1>1. Control(s) /\ Books(s) /\ TypeOK /\ PgTypeOK /\ Admin \in Roles
  BY RolesGrantedAssumption DEF IInv, TypeOK
<1>2. /\ pc[s] = "grantBack" /\ Grant(s, Admin, r, "member")
      /\ revoked'[s] = Tail(revoked[s]) /\ pc'[s] = "restore"
      /\ UNCHANGED <<superusers, list, todo, granted, drops>>
  BY <1>1 DEF GrantBack, GoTo, TypeOK
<1>3. granted[s] = <<>> /\ revoked[s] # <<>> /\ dropped[s] = {}
  BY <1>1, <1>2 DEF Control
<1>4. /\ r \in Roles /\ q \in Pairs
      /\ Elems(revoked[s]) = {r} \cup Elems(revoked'[s])
      /\ NoDuplicates(revoked'[s]) /\ r \notin Elems(revoked'[s])
  BY <1>1, <1>2, <1>3, TailElems DEF TypeOK, Pairs, Books
<1>5. r # Admin /\ own[s][q] = "none"
  BY <1>1, <1>4 DEF Books
<1>6. /\ UNCHANGED <<members, roles, dropped>>
      /\ SeesRole(s, Admin) /\ SeesRole(s, r)
      /\ own'[s][q] = "member"
      /\ \A p \in Pairs \ {q} : own'[s][p] = own[s][p]
  <2>1. ~SeesMember(s, Admin, r)
    BY <1>5 DEF SeesMember, Sees, Untouched
  <2>2. QED
    BY <2>1, <1>1, <1>2, <1>4, GrantEffect
<1>7. Control(s)' /\ ChecksHold(s)' /\ PreparedRolesHeld(s)'
  BY <1>1, <1>2, <1>6 DEF Control, Running, Preparing, ChecksHold, PreparedRolesHeld
<1>8. Books(s)'
  <2>1. granted'[s] = <<>> /\ Elems(granted'[s]) = {} /\ NoDuplicates(granted'[s])
    BY <1>2, <1>3, ElemsOfEmpty
  <2>2. \A x \in Elems(revoked'[s]) : x # Admin /\ own'[s][<<Admin, x>>] = "none"
    <3>1. \A x \in Elems(revoked'[s]) : <<Admin, x>> \in Pairs \ {q}
      BY <1>1, <1>4, ElemsInSet DEF TypeOK, Pairs
    <3>2. QED
      BY <3>1, <1>1, <1>4, <1>6 DEF Books
  <2>3. ASSUME NEW p \in Pairs, own'[s][p] # Untouched
        PROVE  /\ p[1] \in roles /\ p[2] \in roles
               /\ \/ /\ p[1] # Admin /\ p[2] = Admin
                     /\ members[p] = "none"
                     /\ own'[s][p] # "none" => p[1] \in Elems(granted'[s])
                  \/ /\ p[1] = Admin /\ p[2] # Admin
                     /\ members[p] # "none"
                     /\ own'[s][p] = "none" => p[2] \in Elems(revoked'[s])
    <3>1. CASE p = q
      BY <3>1, <1>1, <1>3, <1>5, <1>6 DEF Books, Untouched
    <3>2. CASE p # q
      <4>1. own[s][p] # Untouched
        BY <3>2, <2>3, <1>6
      <4>2. p[1] = Admin => p[2] # r
        BY <3>2 DEF Pairs
      <4>3. QED
        BY <4>1, <4>2, <3>2, <1>1, <1>2, <1>3, <1>4, <1>6 DEF Books
    <3>3. QED
      BY <3>1, <3>2
  <2>4. QED
    BY <2>1, <2>2, <2>3, <1>1, <1>2, <1>4, <1>6 DEF Books, Preparing
<1>9. QED
  BY <1>7, <1>8 DEF SInv

\* DROP ROLE in the callback removes the rows of the dropped role with it.
LEMMA DropTargetSafe ==
  ASSUME IInv, NEW s \in Sessions, DropTarget(s)
  PROVE  SInv(s)' /\ LocksExclusive' /\ RolesLive'
<1> DEFINE r == list[s][1]
<1>1. Control(s) /\ Books(s) /\ TypeOK /\ PgTypeOK /\ LocksExclusive /\ RolesLive
      /\ \A u \in Sessions : Control(u) /\ Books(u)
  BY DEF IInv, TypeOK
<1>2. /\ pc[s] = "drop" /\ pc'[s] = "commit" /\ DropRole(s, r)
      /\ UNCHANGED <<members, roles, superusers, list, todo, granted, revoked, drops>>
  BY <1>1 DEF DropTarget, DropRole, GoTo, TypeOK
<1>3. /\ dropped[s] = {} /\ drops[s] /\ r # Admin
      /\ todo[s] = <<>> /\ granted[s] = <<>> /\ revoked[s] = <<>>
  BY <1>1, <1>2 DEF Control, Running, Preparing
<1>4. /\ dropped'[s] = {r} /\ r \in roles
      /\ \A u \in Sessions \ {s} : dropped'[u] = dropped[u] /\ own'[u] = own[u]
  BY <1>1, <1>2, <1>3 DEF DropRole, SeesRole, PgTypeOK
<1>5. \A p \in Pairs :
        own'[s][p] = IF p \in RowsOf(r) /\ Sees(s, p) # "none" THEN "none" ELSE own[s][p]
  BY <1>1, <1>2 DEF DropRole, PgTypeOK
<1>6. /\ \A u \in Sessions \ {s} : r \notin dropped[u]
      /\ \A p \in RowsOf(r), u \in Sessions \ {s} : own[u][p] = Untouched
  BY <1>2 DEF DropRole, DropRoleHolders, DropHolders, RowHolders
\* What the drop adds are rows that were there, so their roles are too.
<1>7. ASSUME NEW p \in Pairs, own'[s][p] # Untouched
      PROVE  \/ own[s][p] # Untouched /\ p \notin RowsOf(r) /\ own'[s][p] = own[s][p]
             \/ p \in RowsOf(r) /\ own'[s][p] = "none" /\ p[1] \in roles /\ p[2] \in roles
  <2>1. CASE p \notin RowsOf(r)
    BY <2>1, <1>5, <1>7
  <2>2. CASE p \in RowsOf(r) /\ own[s][p] = Untouched
    <3>1. own'[s][p] = "none" /\ members[p] # "none"
      BY <2>2, <1>5, <1>7 DEF Sees
    <3>2. QED
      BY <2>2, <3>1, <1>1 DEF RolesLive
  <2>3. CASE p \in RowsOf(r) /\ own[s][p] # Untouched
    <3>1. own'[s][p] = "none"
      BY <2>3, <1>5 DEF Sees
    <3>2. QED
      BY <2>3, <3>1, <1>1 DEF Books
  <2>4. QED
    BY <2>1, <2>2, <2>3
<1>8. Control(s)'
  <2>1. ASSUME NEW p \in Pairs, p[1] = r \/ p[2] = r
        PROVE  own'[s][p] = "none" \/ (own'[s][p] = Untouched /\ members[p] = "none")
    BY <2>1, <1>5 DEF RowsOf, Sees
  <2>2. QED
    BY <2>1, <1>1, <1>2, <1>3, <1>4 DEF Control, Running, Preparing
<1>9. Books(s)'
  <2>1. ASSUME NEW p \in Pairs, own'[s][p] # Untouched
        PROVE  /\ p[1] \in roles /\ p[2] \in roles
               /\ \/ /\ p[1] = r \/ p[2] = r
                     /\ own'[s][p] = "none"
                  \/ /\ p[1] # Admin /\ p[2] = Admin
                     /\ members[p] = "none"
                     /\ own'[s][p] # "none" => p[1] \in Elems(granted[s])
                  \/ /\ p[1] = Admin /\ p[2] # Admin
                     /\ members[p] # "none"
                     /\ own'[s][p] = "none" => p[2] \in Elems(revoked[s])
    <3>1. CASE own[s][p] # Untouched /\ own'[s][p] = own[s][p]
      BY <3>1, <1>1, <1>3 DEF Books
    <3>2. CASE p \in RowsOf(r) /\ own'[s][p] = "none" /\ p[1] \in roles /\ p[2] \in roles
      BY <3>2 DEF RowsOf
    <3>3. QED
      BY <2>1, <3>1, <3>2, <1>7
  <2>2. QED
    BY <2>1, <1>2, <1>3, <1>4, ElemsOfEmpty DEF Books, Preparing
<1>10. LocksExclusive'
  <2>1. ASSUME NEW u \in Sessions \ {s}, NEW p \in Pairs, own'[s][p] # Untouched
        PROVE  own[u][p] = Untouched /\ p[1] \notin dropped[u] /\ p[2] \notin dropped[u]
    <3>1. CASE own[s][p] # Untouched
      BY <3>1, <2>1, <1>1 DEF LocksExclusive
    <3>2. CASE own[s][p] = Untouched
      <4>1. p \in RowsOf(r) /\ members[p] # "none"
        BY <3>2, <2>1, <1>5 DEF Sees
      <4>2. own[u][p] = Untouched
        BY <4>1, <2>1, <1>6
      <4>3. QED
        BY <4>1, <4>2, <2>1, <1>1 DEF Control, Untouched
    <3>3. QED
      BY <3>1, <3>2
  <2>2. ASSUME NEW u \in Sessions \ {s}, NEW p \in Pairs, own[u][p] # Untouched
        PROVE  own'[s][p] = Untouched /\ p[1] # r /\ p[2] # r
    <3>1. p \notin RowsOf(r)
      BY <2>2, <1>6
    <3>2. own'[s][p] = own[s][p] /\ p[1] # r /\ p[2] # r
      BY <3>1, <1>5 DEF RowsOf
    <3>3. QED
      BY <3>2, <2>2, <1>1 DEF LocksExclusive
  <2>3. ASSUME NEW u \in Sessions, NEW v \in Sessions, u # v
        PROVE  /\ dropped'[u] \cap dropped'[v] = {}
               /\ \A p \in Pairs : own'[u][p] # Untouched =>
                     own'[v][p] = Untouched /\ p[1] \notin dropped'[v] /\ p[2] \notin dropped'[v]
    <3>1. CASE u = s
      BY <3>1, <2>3, <2>1, <1>4, <1>6
    <3>2. CASE v = s
      BY <3>2, <2>3, <2>2, <1>4, <1>6
    <3>3. CASE u # s /\ v # s
      BY <3>3, <2>3, <1>1, <1>4 DEF LocksExclusive
    <3>4. QED
      BY <3>1, <3>2, <3>3
  <2>4. QED
    BY <2>3 DEF LocksExclusive
<1>11. RolesLive'
  BY <1>1, <1>2, <1>3, <1>4 DEF RolesLive
<1>12. ChecksHold(s)' /\ PreparedRolesHeld(s)'
  BY <1>2 DEF ChecksHold, PreparedRolesHeld, Preparing
<1>13. QED
  BY <1>8, <1>9, <1>10, <1>11, <1>12 DEF SInv

\* Commit and rollback leave an operation with nothing.
LEMMA ReturnSafe ==
  ASSUME IInv, NEW s \in Sessions, Commit(s) \/ Rollback(s)
  PROVE  SInv(s)' /\ LocksExclusive' /\ RolesLive'
<1>1. TypeOK /\ PgTypeOK /\ LocksExclusive /\ RolesLive /\ Control(s) /\ Admin \in Roles
  BY RolesGrantedAssumption DEF IInv, TypeOK
<1>2. /\ own'[s] = NoWrites /\ dropped'[s] = {}
      /\ \A u \in Sessions \ {s} : own'[u] = own[u] /\ dropped'[u] = dropped[u]
      /\ pc'[s] \in {"done", "failed"}
      /\ todo'[s] = <<>> /\ granted'[s] = <<>> /\ revoked'[s] = <<>>
  BY <1>1 DEF Commit, CommitTxn, Rollback, RollbackTxn, Return, GoTo, TypeOK, PgTypeOK
<1>3. Control(s)'
  BY <1>2 DEF Control, Running, Preparing
<1>4. Books(s)'
  BY <1>2, ElemsOfEmpty DEF Books, Preparing, NoWrites
<1>5. ChecksHold(s)' /\ PreparedRolesHeld(s)'
  BY <1>2 DEF ChecksHold, PreparedRolesHeld, Preparing
<1>6. LocksExclusive'
  BY <1>1, <1>2 DEF LocksExclusive, NoWrites
<1>7. RolesLive'
  <2>1. CASE Commit(s)
    <3>1. roles' = roles \ dropped[s]
      BY <2>1 DEF Commit, CommitTxn
    <3>2. \A u \in Sessions \ {s} : dropped[u] \cap dropped[s] = {}
      BY <1>1 DEF LocksExclusive
    <3>3. ASSUME NEW p \in Pairs, members'[p] # "none"
          PROVE  p[1] \in roles' /\ p[2] \in roles'
      <4>1. members[p] # "none" /\ members'[p] = Sees(s, p)
        BY <2>1, <3>3, CommitKeeps DEF Commit, CommitTxn
      <4>2. p[1] \notin dropped[s] /\ p[2] \notin dropped[s]
        BY <4>1, <3>3, <1>1 DEF Control, Sees, Untouched
      <4>3. QED
        BY <4>1, <4>2, <3>1, <1>1 DEF RolesLive
    <3>4. QED
      BY <3>1, <3>2, <3>3, <1>1, <1>2 DEF RolesLive
  <2>2. CASE Rollback(s)
    <3>1. UNCHANGED <<members, roles>>
      BY <2>2 DEF Rollback, RollbackTxn
    <3>2. QED
      BY <3>1, <1>1, <1>2 DEF RolesLive
  <2>3. QED
    BY <2>1, <2>2
<1>8. QED
  BY <1>3, <1>4, <1>5, <1>6, <1>7 DEF SInv

-----------------------------------------------------------------------------
(* Theorems. *)

\* A step only changes the variables of the operation that takes it.
LEMMA OthersUnchanged ==
  ASSUME IInv, NEW s \in Sessions,
         \/ \E roleList \in RoleLists, isDelete \in BOOLEAN : Begin(s, roleList, isDelete)
         \/ Step(s) \/ Rollback(s),
         NEW u \in Sessions \ {s}
  PROVE  OwnUnchanged(u) /\ (~Commit(s) => UNCHANGED <<members, roles>>)
<1>1. TypeOK /\ PgTypeOK
  BY DEF IInv, TypeOK
<1> USE <1>1 DEF OwnUnchanged, GoTo, Skip, TypeOK
<1>2. ASSUME NEW roleList \in RoleLists, NEW isDelete \in BOOLEAN, Begin(s, roleList, isDelete)
      PROVE  OwnUnchanged(u) /\ UNCHANGED <<members, roles>>
  BY <1>2 DEF Begin, pgVars
<1>3. ASSUME CheckReverse(s) \/ CheckGrant(s) \/ StartFn(s) \/ EndFn(s)
      PROVE  OwnUnchanged(u) /\ UNCHANGED <<members, roles>>
  BY <1>3 DEF CheckReverse, CheckGrant, StartFn, EndFn, pgVars
<1>4. ASSUME CheckGranted(s) \/ CheckRevoked(s) \/ Restored(s)
      PROVE  OwnUnchanged(u) /\ UNCHANGED <<members, roles>>
  BY <1>4 DEF CheckGranted, CheckRevoked, Restored, pgVars
<1>5. ASSUME RevokeReverse(s) \/ RevokeGranted(s)
      PROVE  OwnUnchanged(u) /\ UNCHANGED <<members, roles>>
  BY <1>5 DEF RevokeReverse, RevokeGranted, Revoke, Write, PgTypeOK
<1>6. ASSUME GrantRole(s) \/ GrantBack(s)
      PROVE  OwnUnchanged(u) /\ UNCHANGED <<members, roles>>
  BY <1>6 DEF GrantRole, GrantBack, Grant, Write, PgTypeOK
<1>7. ASSUME DropTarget(s)
      PROVE  OwnUnchanged(u) /\ UNCHANGED <<members, roles>>
  BY <1>7 DEF DropTarget, DropRole, PgTypeOK
<1>8. ASSUME Commit(s) PROVE OwnUnchanged(u)
  BY <1>8 DEF Commit, CommitTxn, Return, PgTypeOK
<1>9. ASSUME Rollback(s)
      PROVE  OwnUnchanged(u) /\ UNCHANGED <<members, roles>>
  BY <1>9 DEF Rollback, RollbackTxn, Return, PgTypeOK
<1>10. QED
  BY <1>2, <1>3, <1>4, <1>5, <1>6, <1>7, <1>8, <1>9 DEF Step

\* What the operation that acts owes: its own invariant and the locks.
LEMMA ActorSafe ==
  ASSUME IInv, NEW s \in Sessions,
         \/ \E roleList \in RoleLists, isDelete \in BOOLEAN : Begin(s, roleList, isDelete)
         \/ Step(s) \/ Rollback(s)
  PROVE  SInv(s)' /\ LocksExclusive' /\ RolesLive'
<1>1. LocksExclusive /\ RolesLive /\ Control(s) /\ Admin \in Roles
  BY RolesGrantedAssumption DEF IInv
<1>2. ASSUME UNCHANGED pgVars PROVE LocksExclusive' /\ RolesLive'
  BY <1>1, <1>2 DEF LocksExclusive, RolesLive, pgVars
<1>3. ASSUME NEW roleList \in RoleLists, NEW isDelete \in BOOLEAN, Begin(s, roleList, isDelete)
      PROVE  SInv(s)' /\ LocksExclusive' /\ RolesLive'
  BY <1>2, <1>3, BeginSafe DEF Begin
<1>4. ASSUME CheckReverse(s) PROVE SInv(s)' /\ LocksExclusive' /\ RolesLive'
  BY <1>2, <1>4, CheckReverseSafe DEF CheckReverse
<1>5. ASSUME CheckGrant(s) PROVE SInv(s)' /\ LocksExclusive' /\ RolesLive'
  BY <1>2, <1>5, CheckGrantSafe DEF CheckGrant
<1>6. ASSUME StartFn(s) \/ EndFn(s) \/ Restored(s) PROVE SInv(s)' /\ LocksExclusive' /\ RolesLive'
  BY <1>2, <1>6, FnSafe DEF StartFn, EndFn, Restored
<1>7. ASSUME CheckGranted(s) PROVE SInv(s)' /\ LocksExclusive' /\ RolesLive'
  BY <1>2, <1>7, CheckGrantedSafe DEF CheckGranted
<1>8. ASSUME CheckRevoked(s) PROVE SInv(s)' /\ LocksExclusive' /\ RolesLive'
  BY <1>2, <1>8, CheckRevokedSafe DEF CheckRevoked
<1>9. ASSUME RevokeReverse(s) PROVE SInv(s)' /\ LocksExclusive' /\ RolesLive'
  <2>1. Head(todo[s]) \in Roles /\ Revoke(s, Admin, Head(todo[s]))
    BY <1>1, <1>9, HeadsTyped DEF RevokeReverse, Control, Preparing
  <2>2. QED
    BY <2>1, <1>1, <1>9, WriteLocks, RevokeReverseSafe
<1>10. ASSUME GrantRole(s) PROVE SInv(s)' /\ LocksExclusive' /\ RolesLive'
  <2>1. Head(todo[s]) \in Roles /\ Grant(s, Head(todo[s]), Admin, "member")
    BY <1>1, <1>10, HeadsTyped DEF GrantRole, Control, Preparing
  <2>2. QED
    BY <2>1, <1>1, <1>10, WriteLocks, GrantRoleSafe
<1>11. ASSUME RevokeGranted(s) PROVE SInv(s)' /\ LocksExclusive' /\ RolesLive'
  <2>1. Head(granted[s]) \in Roles /\ Revoke(s, Head(granted[s]), Admin)
    BY <1>1, <1>11, HeadsTyped DEF RevokeGranted, Control
  <2>2. QED
    BY <2>1, <1>1, <1>11, WriteLocks, RevokeGrantedSafe
<1>12. ASSUME GrantBack(s) PROVE SInv(s)' /\ LocksExclusive' /\ RolesLive'
  <2>1. Head(revoked[s]) \in Roles /\ Grant(s, Admin, Head(revoked[s]), "member")
    BY <1>1, <1>12, HeadsTyped DEF GrantBack, Control
  <2>2. QED
    BY <2>1, <1>1, <1>12, WriteLocks, GrantBackSafe
<1>13. QED
  BY <1>3, <1>4, <1>5, <1>6, <1>7, <1>8, <1>9, <1>10, <1>11, <1>12, DropTargetSafe, ReturnSafe
  DEF Step

\* Every step keeps the inductive invariant.
LEMMA StepIInv == IInv /\ [Next]_vars => IInv'
<1> SUFFICES ASSUME IInv, [Next]_vars PROVE IInv'
  OBVIOUS
<1>1. TypeOK'
  BY TypeStep
<1>2. ASSUME NEW s \in Sessions,
             \/ \E roleList \in RoleLists, isDelete \in BOOLEAN : Begin(s, roleList, isDelete)
             \/ Step(s) \/ Rollback(s)
      PROVE  IInv'
  <2>1. SInv(s)' /\ LocksExclusive' /\ RolesLive'
    BY <1>2, ActorSafe
  <2>2. ASSUME NEW u \in Sessions \ {s} PROVE SInv(u)'
    <3>1. OwnUnchanged(u) /\ (~Commit(s) => UNCHANGED <<members, roles>>)
      BY <1>2, OthersUnchanged
    <3>2. CASE Commit(s)
      BY <3>2, FrameCommit
    <3>3. CASE ~Commit(s)
      BY <3>1, <3>3, Frame
    <3>4. QED
      BY <3>2, <3>3
  <2>3. \A u \in Sessions : SInv(u)'
    BY <2>1, <2>2
  <2>4. QED
    BY <1>1, <2>1, <2>3 DEF IInv, SInv
<1>3. CASE UNCHANGED vars
  <2>1. \A u \in Sessions : SInv(u)'
    BY <1>3, Frame DEF vars, pgVars, opVars, OwnUnchanged
  <2>2. LocksExclusive' /\ RolesLive'
    BY <1>3 DEF IInv, LocksExclusive, RolesLive, vars, pgVars
  <2>3. QED
    BY <1>1, <2>1, <2>2 DEF IInv, SInv
<1>4. QED
  BY <1>2, <1>3 DEF Next, Terminated

\* The inductive invariant of withRolesGranted holds for any number of
\* operations, roles and initial memberships.
THEOREM Invariance == Spec => []IInv
<1>1. Init => IInv
  BY InitIInv
<1>2. IInv /\ [Next]_vars => IInv'
  BY StepIInv
<1>3. QED
  BY <1>1, <1>2, PTL DEF Spec

\* Type correctness.
THEOREM TypeCorrect == Spec => []TypeOK
<1>1. IInv => TypeOK
  BY DEF IInv
<1>2. QED
  BY <1>1, Invariance, PTL

\* The callback always runs with the roles it needs, whatever the other
\* operations grant, revoke, drop, commit and roll back meanwhile.
THEOREM CallbackHoldsRoles == Spec => []NeededRolesHeld
<1>1. IInv => NeededRolesHeld
  <2> SUFFICES ASSUME IInv, NEW s \in Sessions, pc[s] = "fn", NEW r \in Needed(s) \cap roles
               PROVE  SeesMember(s, r, Admin)
    BY DEF NeededRolesHeld
  <2>1. Control(s) /\ PreparedRolesHeld(s)
    BY DEF IInv
  <2>2. todo[s] = <<>>
    BY <2>1 DEF Control, Preparing
  <2>3. QED
    BY <2>1, <2>2, ElemsOfEmpty DEF PreparedRolesHeld
<1>2. QED
  BY <1>1, Invariance, PTL

\* Only a commit changes the committed memberships, and it adds no row.
LEMMA CommittedRows ==
  ASSUME IInv, [Next]_vars, NEW p \in Pairs
  PROVE  /\ members[p] = "none" => members'[p] = "none"
         /\ {p[1], p[2]} \subseteq roles' => (members'[p] = "none") = (members[p] = "none")
<1>1. CASE \E s \in Sessions : Commit(s)
  BY <1>1, CommitKeeps
<1>2. ASSUME NEW s \in Sessions, ~Commit(s),
             \/ \E roleList \in RoleLists, isDelete \in BOOLEAN : Begin(s, roleList, isDelete)
             \/ Step(s) \/ Rollback(s)
      PROVE  members' = members
  BY <1>2 DEF Begin, Step, CheckReverse, RevokeReverse, Revoke, CheckGrant, GrantRole, Grant,
     StartFn, EndFn, CheckGranted, RevokeGranted, CheckRevoked, GrantBack, Restored,
     DropTarget, DropRole, Rollback, RollbackTxn, pgVars
<1>3. CASE UNCHANGED vars
  BY <1>3 DEF vars, pgVars
<1>4. QED
  BY <1>1, <1>2, <1>3 DEF Next, Terminated

\* No commit changes who is a member of what, between roles that stay.
THEOREM TemporaryMeansTemporary == Spec => MembershipsKept
<1>1. IInv /\ [Next]_vars =>
        [\A p \in Pairs : {p[1], p[2]} \subseteq roles' =>
           (members'[p] = "none") = (members[p] = "none")]_vars
  BY CommittedRows
<1>2. QED
  BY <1>1, Invariance, PTL DEF Spec, MembershipsKept

\* With fewer rows fewer roles inherit.
LEMMA FewerRowsInherit ==
  ASSUME NEW rows, NEW fewer,
         \A p \in Pairs : rows[p] = "none" => fewer[p] = "none",
         NEW r, NEW m, Inherits(fewer, r, m)
  PROVE  Inherits(rows, r, m)
  BY DEF Inherits

\* The operations never close a cycle of memberships.
THEOREM StaysAcyclic == Spec => []Acyclic(members)
<1>1. Init => Acyclic(members)
  BY RolesGrantedAssumption DEF Init
<1>2. IInv /\ Acyclic(members) /\ [Next]_vars => Acyclic(members)'
  <2> SUFFICES ASSUME IInv, Acyclic(members), [Next]_vars,
                      NEW p \in Pairs, members'[p] # "none",
                      Inherits(members', p[1], p[2])
               PROVE  FALSE
    BY DEF Acyclic
  <2>1. \A q \in Pairs : members[q] = "none" => members'[q] = "none"
    BY CommittedRows
  <2>2. Inherits(members, p[1], p[2])
    BY <2>1, FewerRowsInherit
  <2>3. QED
    BY <2>1, <2>2 DEF Acyclic
<1>3. QED
  BY <1>1, <1>2, Invariance, PTL DEF Spec

\* Giving a membership back is never refused: by then everything granted is
\* taken back, so the transaction sees no row that was not committed before it,
\* and the rows committed close no cycle.
THEOREM RestoreAccepted == Spec => []RestoreNeverRefused
<1>1. IInv /\ Acyclic(members) => RestoreNeverRefused
  <2> SUFFICES ASSUME IInv, Acyclic(members), NEW s \in Sessions,
                      pc[s] \in {"revokeGranted", "grantBack"}
               PROVE  ~Refused(s)
    BY DEF RestoreNeverRefused
  <2>1. Control(s) /\ Books(s) /\ RolesLive /\ TypeOK /\ Admin \in Roles
    BY RolesGrantedAssumption DEF IInv
  <2>2. dropped[s] = {} /\ Admin \in roles
    BY <2>1 DEF Control, RolesLive
  <2>3. CASE pc[s] = "revokeGranted"
    <3>1. Head(granted[s]) \in Elems(granted[s]) /\ Head(granted[s]) \in Roles
      BY <2>1, <2>3, TailElems DEF Control, TypeOK
    <3>2. <<Head(granted[s]), Admin>> \in Pairs /\ own[s][<<Head(granted[s]), Admin>>] # Untouched
      BY <2>1, <3>1 DEF Books, Pairs, Untouched
    <3>3. Head(granted[s]) \in roles
      BY <2>1, <3>2 DEF Books
    <3>4. QED
      BY <2>2, <2>3, <3>3 DEF Refused, RevokeAccepted, SeesRole
  <2>4. CASE pc[s] = "grantBack"
    <3> DEFINE r == Head(revoked[s])
               q == <<Admin, r>>
    <3>1. r \in Elems(revoked[s]) /\ r \in Roles /\ granted[s] = <<>>
      BY <2>1, <2>4, TailElems DEF Control, TypeOK
    <3>2. q \in Pairs /\ own[s][q] = "none" /\ r # Admin
      BY <2>1, <3>1 DEF Books, Pairs
    <3>3. r \in roles /\ members[q] # "none"
      BY <2>1, <2>2, <3>2 DEF Books, Untouched
    <3>4. ASSUME NEW p \in Pairs, members[p] = "none" PROVE View(s)[p] = "none"
      BY <2>1, <2>2, <3>1, <3>4, ElemsOfEmpty DEF View, Sees, Books
    <3>5. ~Inherits(members, Admin, r)
      BY <3>2, <3>3 DEF Acyclic
    <3>6. ~Inherits(View(s), Admin, r)
      BY <3>4, <3>5, FewerRowsInherit
    <3>7. QED
      BY <2>2, <2>4, <3>3, <3>6 DEF Refused, GrantAccepted, SeesRole
  <2>5. QED
    BY <2>3, <2>4
<1>2. QED
  BY <1>1, Invariance, StaysAcyclic, PTL

-----------------------------------------------------------------------------
(* The three ways side by side (MembershipOps). *)

GrantRolePC == {"grRevoke", "grGrant", "grCommit", "grRead", "grDelete", "grDeleteCommit"}

LoanPC == {"loanCheck", "loanGrant", "loanUse", "loanCheckAgain", "loanRevoke"}

OpsTypeOK ==
    /\ PgTypeOK
    /\ pc \in [Sessions -> PC \cup GrantRolePC \cup LoanPC]
    /\ todo \in [Sessions -> Seq(Roles)]
    /\ granted \in [Sessions -> Seq(Roles)]
    /\ revoked \in [Sessions -> Seq(Roles)]
    /\ pair \in [Sessions -> Pairs]
    /\ ownerGranted \in [Sessions -> BOOLEAN]
    /\ managed \subseteq ManagedPairs

\* A transaction that gives the user a role has it among those it will take back,
\* or is a grant_role's; before a commit there is nothing left to take back.
Accounted(s) ==
    /\ \A r \in Roles : own[s][<<r, Admin>>] \in {"member", "admin"} =>
         <<r, Admin>> \in ManagedPairs \/ r \in Elems(granted[s])
    /\ pc[s] \in {"idle", "drop", "commit"} \cup GrantRolePC => granted[s] = <<>>
    /\ Preparing(s) /\ pc[s] # "prepare" => todo[s] # <<>>
    /\ pc[s] = "revokeGranted" => granted[s] # <<>>
    /\ pc[s] = "grantBack" => revoked[s] # <<>>
    /\ pc[s] = "idle" => ~ownerGranted[s]
    /\ pc[s] \in GrantRolePC => pair[s] \in ManagedPairs

OpsInv == OpsTypeOK /\ NoStrayMembership /\ \A s \in Sessions : Accounted(s)

\* Where the properties come from a step of one session: the others keep what is theirs.
LEMMA OneSessionActs ==
  ASSUME OpsInv, NEW s \in Sessions, OpsTypeOK', Accounted(s)', NoStrayMembership',
         \A u \in Sessions \ {s} :
           /\ own'[u] = own[u] /\ pc'[u] = pc[u] /\ todo'[u] = todo[u]
           /\ granted'[u] = granted[u] /\ revoked'[u] = revoked[u]
           /\ pair'[u] = pair[u] /\ ownerGranted'[u] = ownerGranted[u]
  PROVE  OpsInv'
<1>1. ASSUME NEW u \in Sessions \ {s} PROVE Accounted(u)'
  BY <1>1 DEF OpsInv, Accounted, Preparing
<1>2. QED
  BY <1>1 DEF OpsInv

\* No row is committed, and no loan is settled: nothing is lost sight of.
LEMMA NothingCommitted ==
  ASSUME NoStrayMembership, UNCHANGED <<members, pair, ownerGranted, initial>>
  PROVE  NoStrayMembership'
BY DEF NoStrayMembership

\* Beside the other writers too, what a loop takes next is a role, and a list is its head and its tail.
LEMMA OpsHeads ==
  ASSUME OpsTypeOK, NEW s \in Sessions
  PROVE  /\ todo[s] # <<>> => Head(todo[s]) \in Roles /\ Tail(todo[s]) \in Seq(Roles)
         /\ granted[s] # <<>> =>
              /\ Head(granted[s]) \in Roles /\ Tail(granted[s]) \in Seq(Roles)
              /\ Elems(granted[s]) = {Head(granted[s])} \cup Elems(Tail(granted[s]))
         /\ revoked[s] # <<>> => Head(revoked[s]) \in Roles /\ Tail(revoked[s]) \in Seq(Roles)
<1>1. todo[s] \in Seq(Roles) /\ granted[s] \in Seq(Roles) /\ revoked[s] \in Seq(Roles)
  BY DEF OpsTypeOK
<1>2. QED
  BY <1>1, TailElems

\* A COMMIT publishes roles of the user that grant_role gives only.
LEMMA CommitAccounted ==
  ASSUME OpsInv, NEW s \in Sessions, granted[s] = <<>>, CommitTxn(s),
         UNCHANGED <<pair, ownerGranted, initial>>
  PROVE  /\ NoStrayMembership' /\ PgTypeOK'
         /\ \A r \in Roles : own'[s][<<r, Admin>>] \notin {"member", "admin"}
         /\ \A u \in Sessions \ {s} : own'[u] = own[u]
<1>1. /\ PgTypeOK /\ Accounted(s) /\ NoStrayMembership
      /\ members' = [p \in Pairs |-> Sees(s, p)]
      /\ own' = [own EXCEPT ![s] = NoWrites]
  BY DEF OpsInv, OpsTypeOK, CommitTxn
<1>2. PgTypeOK'
  BY <1>1 DEF PgTypeOK, CommitTxn, Sees, NoWrites, Untouched
<1>3. ASSUME NEW p \in Pairs, members'[p] # "none", p[2] = Admin
      PROVE  \/ initial'[p] # "none"
             \/ p \in ManagedPairs
             \/ \E u \in LoanOps : ownerGranted'[u] /\ pair'[u] = p
  <2>1. p[1] \in Roles /\ p = <<p[1], Admin>>
    BY <1>3 DEF Pairs
  <2>2. CASE own[s][p] = Untouched
    <3>1. members[p] # "none"
      BY <1>1, <1>3, <2>2 DEF Sees
    <3>2. QED
      BY <1>1, <1>3, <3>1 DEF NoStrayMembership
  <2>3. CASE own[s][p] # Untouched
    <3>1. own[s][p] # "none"
      BY <1>1, <1>3, <2>3 DEF Sees
    <3>2. own[s][p] \in {"member", "admin"}
      BY <1>1, <2>3, <3>1 DEF PgTypeOK, Level
    <3>3. <<p[1], Admin>> \in ManagedPairs
      BY <1>1, <2>1, <3>2, ElemsOfEmpty DEF Accounted
    <3>4. QED
      BY <2>1, <3>3
  <2>4. QED
    BY <2>2, <2>3
<1>4. own'[s] = NoWrites /\ \A u \in Sessions \ {s} : own'[u] = own[u]
  BY <1>1 DEF PgTypeOK
<1>5. \A r \in Roles : own'[s][<<r, Admin>>] \notin {"member", "admin"}
  BY <1>4, RolesGrantedAssumption DEF NoWrites, Untouched, Pairs
<1>6. NoStrayMembership'
  <2>1. \A p \in Pairs : members'[p] # "none" /\ p[2] = Admin =>
             \/ initial'[p] # "none"
             \/ p \in ManagedPairs
             \/ \E u \in LoanOps : ownerGranted'[u] /\ pair'[u] = p
    BY <1>3
  <2>2. QED
    BY <2>1 DEF NoStrayMembership
<1>7. QED
  BY <1>2, <1>4, <1>5, <1>6

\* A rollback leaves the committed rows alone and forgets what it wrote.
LEMMA RollbackAccounted ==
  ASSUME OpsInv, NEW s \in Sessions, Rollback(s)
  PROVE  /\ PgTypeOK' /\ members' = members
         /\ \A r \in Roles : own'[s][<<r, Admin>>] \notin {"member", "admin"}
         /\ \A u \in Sessions \ {s} : own'[u] = own[u]
<1>1. PgTypeOK /\ own' = [own EXCEPT ![s] = NoWrites] /\ members' = members /\ roles' = roles
      /\ dropped' = [dropped EXCEPT ![s] = {}]
  BY DEF OpsInv, OpsTypeOK, Rollback, RollbackTxn
<1>2. PgTypeOK'
  BY <1>1 DEF PgTypeOK, NoWrites, Untouched
<1>3. own'[s] = NoWrites /\ \A u \in Sessions \ {s} : own'[u] = own[u]
  BY <1>1 DEF PgTypeOK
<1>4. QED
  BY <1>1, <1>2, <1>3, RolesGrantedAssumption DEF NoWrites, Untouched, Pairs

\* withRolesGranted.
LEMMA HelperAccounted ==
  ASSUME OpsInv, NEW s \in Sessions, UNCHANGED moreVars,
         (\E roleList \in RoleLists : Begin(s, roleList, FALSE)) \/ Step(s) \/ Rollback(s)
  PROVE  OpsInv'
<1> USE RolesGrantedAssumption DEF GoTo, Skip
<1>0. /\ OpsTypeOK /\ PgTypeOK /\ Accounted(s) /\ NoStrayMembership
      /\ UNCHANGED <<managed, pair, ownerGranted, initial>>
      /\ todo[s] \in Seq(Roles) /\ granted[s] \in Seq(Roles) /\ revoked[s] \in Seq(Roles)
      /\ <<>> \in Seq(Roles)
  BY EmptySeq DEF OpsInv, OpsTypeOK, moreVars
<1> DEFINE OthersKept == \A u \in Sessions \ {s} :
             /\ own'[u] = own[u] /\ pc'[u] = pc[u] /\ todo'[u] = todo[u]
             /\ granted'[u] = granted[u] /\ revoked'[u] = revoked[u]
           Changed == /\ pc' = [pc EXCEPT ![s] = pc'[s]] /\ pc'[s] \in PC
                      /\ todo' = [todo EXCEPT ![s] = todo'[s]] /\ todo'[s] \in Seq(Roles)
                      /\ granted' = [granted EXCEPT ![s] = granted'[s]] /\ granted'[s] \in Seq(Roles)
                      /\ revoked' = [revoked EXCEPT ![s] = revoked'[s]] /\ revoked'[s] \in Seq(Roles)
                      /\ PgTypeOK' /\ \A u \in Sessions \ {s} : own'[u] = own[u]
<1>a. ASSUME Changed, Accounted(s)', NoStrayMembership' PROVE OpsInv'
  <2>1. OpsTypeOK'
    BY <1>0, <1>a DEF OpsTypeOK
  <2>2. OthersKept
    BY <1>0, <1>a DEF OpsTypeOK
  <2>3. QED
    BY <1>0, <1>a, <2>1, <2>2, OneSessionActs
<1>b. ASSUME Changed, Accounted(s)', members' = members PROVE OpsInv'
  BY <1>0, <1>a, <1>b, NothingCommitted
<1> HIDE DEF Changed, OthersKept
<1>1. ASSUME NEW roleList \in RoleLists, Begin(s, roleList, FALSE) PROVE OpsInv'
  <2>1. Changed
    BY <1>0, <1>1 DEF Changed, Begin, pgVars, PC, OpsTypeOK, PgTypeOK
  <2>2. Accounted(s)'
    BY <1>0, <1>1 DEF Begin, pgVars, Accounted, Preparing, GrantRolePC, OpsTypeOK
  <2>3. QED
    BY <1>1, <1>b, <2>1, <2>2 DEF Begin, pgVars
<1>2. CASE CheckReverse(s) \/ CheckGrant(s) \/ StartFn(s) \/ EndFn(s) \/ CheckRevoked(s) \/ Restored(s)
  <2>1. pgVars' = pgVars /\ granted' = granted
    BY <1>2 DEF CheckReverse, CheckGrant, StartFn, EndFn, CheckRevoked, Restored
  <2>2. Changed
    <3>1. PgTypeOK' /\ \A u \in Sessions \ {s} : own'[u] = own[u]
      BY <1>0, <2>1 DEF pgVars, PgTypeOK
    <3>2. todo[s] # <<>> => Tail(todo[s]) \in Seq(Roles)
      BY <1>0, OpsHeads
    <3>3. revoked[s] # <<>> => Tail(revoked[s]) \in Seq(Roles)
      BY <1>0, OpsHeads
    <3>4. CASE CheckReverse(s)
      BY <1>0, <2>1, <3>1, <3>2, <3>4 DEF Changed, CheckReverse, PC, OpsTypeOK
    <3>5. CASE CheckGrant(s)
      BY <1>0, <2>1, <3>1, <3>2, <3>5 DEF Changed, CheckGrant, PC, OpsTypeOK, Accounted, Preparing
    <3>6. CASE CheckRevoked(s)
      BY <1>0, <2>1, <3>1, <3>3, <3>6 DEF Changed, CheckRevoked, PC, OpsTypeOK
    <3>7. CASE StartFn(s) \/ EndFn(s) \/ Restored(s)
      BY <1>0, <2>1, <3>1, <3>7 DEF Changed, StartFn, EndFn, Restored, PC, OpsTypeOK
    <3>8. QED
      BY <1>2, <3>4, <3>5, <3>6, <3>7
  <2>3. Accounted(s)'
    BY <1>0, <1>2, <2>1 DEF CheckReverse, CheckGrant, StartFn, EndFn, CheckRevoked, Restored,
       pgVars, OpsTypeOK, Accounted, Preparing, GrantRolePC
  <2>4. QED
    BY <1>b, <2>1, <2>2, <2>3 DEF pgVars
<1>3. CASE RevokeReverse(s)
  <2>1. Head(todo[s]) \in Roles /\ Revoke(s, Admin, Head(todo[s])) /\ todo[s] # <<>>
    BY <1>0, <1>3, OpsHeads DEF RevokeReverse, Accounted, Preparing
  <2>2. PgTypeOK' /\ members' = members /\ \A u \in Sessions \ {s} : own'[u] = own[u]
    BY <1>0, <2>1, RevokeEffect
  <2>3. \A p \in Pairs : own'[s][p] \in {"none", own[s][p]}
    BY <1>0, <2>1, RevokeEffect
  <2>4. Append(revoked[s], Head(todo[s])) \in Seq(Roles)
    BY <1>0, <2>1, AppendElems
  <2>5. Changed
    BY <1>0, <1>3, <2>2, <2>4 DEF Changed, RevokeReverse, PC, OpsTypeOK
  <2>6. \A r \in Roles : <<r, Admin>> \in Pairs
    BY DEF Pairs
  <2>7. Accounted(s)'
    BY <1>0, <1>3, <2>1, <2>3, <2>6 DEF RevokeReverse, OpsTypeOK, Accounted, Preparing, GrantRolePC
  <2>8. QED
    BY <1>b, <2>2, <2>5, <2>7
<1>4. CASE GrantRole(s)
  <2>1. Head(todo[s]) \in Roles /\ Tail(todo[s]) \in Seq(Roles)
        /\ Grant(s, Head(todo[s]), Admin, "member")
    BY <1>0, <1>4, OpsHeads DEF GrantRole, Accounted, Preparing
  <2>2. PgTypeOK' /\ members' = members /\ \A u \in Sessions \ {s} : own'[u] = own[u]
    BY <1>0, <2>1, GrantEffect
  <2>3. \A p \in Pairs : p # <<Head(todo[s]), Admin>> => own'[s][p] = own[s][p]
    BY <1>0, <2>1, GrantEffect
  <2>4. /\ Append(granted[s], Head(todo[s])) \in Seq(Roles)
        /\ Elems(Append(granted[s], Head(todo[s]))) = Elems(granted[s]) \cup {Head(todo[s])}
    BY <1>0, <2>1, AppendElems
  <2>5. Changed
    BY <1>0, <1>4, <2>1, <2>2, <2>4 DEF Changed, GrantRole, PC, OpsTypeOK
  <2>6. \A r \in Roles : <<r, Admin>> \in Pairs
    BY DEF Pairs
  <2>7. granted'[s] = Append(granted[s], Head(todo[s])) /\ pc'[s] = "prepare"
    BY <1>0, <1>4 DEF GrantRole, OpsTypeOK
  <2>8. ASSUME NEW r \in Roles, own'[s][<<r, Admin>>] \in {"member", "admin"}
        PROVE  <<r, Admin>> \in ManagedPairs \/ r \in Elems(granted'[s])
    BY <1>0, <2>3, <2>4, <2>6, <2>7, <2>8 DEF Accounted
  <2>9. Accounted(s)'
    BY <2>7, <2>8 DEF Accounted, Preparing, GrantRolePC
  <2>10. QED
    BY <1>b, <2>2, <2>5, <2>9
<1>5. CASE CheckGranted(s)
  <2>1. pgVars' = pgVars /\ granted[s] # <<>> /\ pc[s] = "restore" /\ UNCHANGED <<todo, revoked>>
    BY <1>5 DEF CheckGranted
  <2>2. Head(granted[s]) \in Roles /\ Tail(granted[s]) \in Seq(Roles)
        /\ Elems(granted[s]) = {Head(granted[s])} \cup Elems(Tail(granted[s]))
    BY <1>0, <2>1, OpsHeads
  <2>3. CASE SeesMember(s, Head(granted[s]), Admin)
    <3>1. Changed /\ pc'[s] = "revokeGranted" /\ granted' = granted
      BY <1>0, <1>5, <2>1, <2>3 DEF CheckGranted, Changed, pgVars, PC, OpsTypeOK, PgTypeOK
    <3>2. Accounted(s)'
      BY <1>0, <2>1, <3>1 DEF Accounted, Preparing, GrantRolePC, pgVars
    <3>3. QED
      BY <1>b, <2>1, <3>1, <3>2 DEF pgVars
  <2>4. CASE ~SeesMember(s, Head(granted[s]), Admin)
    <3>1. /\ Changed /\ pc' = pc
          /\ granted'[s] = Tail(granted[s])
      BY <1>0, <1>5, <2>1, <2>2, <2>4 DEF CheckGranted, Changed, pgVars, PC, OpsTypeOK, PgTypeOK
    <3>2. own[s][<<Head(granted[s]), Admin>>] \notin {"member", "admin"}
      BY <2>4 DEF SeesMember, Sees, Untouched
    <3>3. ASSUME NEW r \in Roles, own'[s][<<r, Admin>>] \in {"member", "admin"}
          PROVE  <<r, Admin>> \in ManagedPairs \/ r \in Elems(granted'[s])
      BY <1>0, <2>1, <2>2, <3>1, <3>2, <3>3 DEF Accounted, pgVars
    <3>4. Accounted(s)'
      BY <2>1, <3>1, <3>3 DEF Accounted, Preparing, GrantRolePC
    <3>5. QED
      BY <1>b, <2>1, <3>1, <3>4 DEF pgVars
  <2>5. QED
    BY <2>3, <2>4
<1>6. CASE RevokeGranted(s)
  <2>1. /\ pc[s] = "revokeGranted" /\ granted[s] # <<>> /\ UNCHANGED <<todo, revoked>>
        /\ Revoke(s, Head(granted[s]), Admin)
    BY <1>0, <1>6 DEF RevokeGranted, Accounted
  <2>2. Head(granted[s]) \in Roles /\ Tail(granted[s]) \in Seq(Roles)
        /\ Elems(granted[s]) = {Head(granted[s])} \cup Elems(Tail(granted[s]))
    BY <1>0, <2>1, OpsHeads
  <2>3. PgTypeOK' /\ members' = members /\ \A u \in Sessions \ {s} : own'[u] = own[u]
    BY <1>0, <2>1, <2>2, RevokeEffect
  <2>4. own'[s][<<Head(granted[s]), Admin>>] \notin {"member", "admin"}
    BY <1>0, <2>1, <2>2, RevokeEffect DEF SeesMember, Sees, Untouched
  <2>5. \A p \in Pairs : p # <<Head(granted[s]), Admin>> => own'[s][p] = own[s][p]
    BY <1>0, <2>1, <2>2, RevokeEffect
  <2>6. Changed /\ granted'[s] = Tail(granted[s]) /\ pc'[s] = "restore"
    BY <1>0, <1>6, <2>2, <2>3 DEF Changed, RevokeGranted, PC, OpsTypeOK
  <2>7. \A r \in Roles : <<r, Admin>> \in Pairs
    BY DEF Pairs
  <2>8. ASSUME NEW r \in Roles, own'[s][<<r, Admin>>] \in {"member", "admin"}
        PROVE  <<r, Admin>> \in ManagedPairs \/ r \in Elems(granted'[s])
    BY <1>0, <2>2, <2>4, <2>5, <2>6, <2>7, <2>8 DEF Accounted
  <2>9. Accounted(s)'
    BY <2>6, <2>8 DEF Accounted, Preparing, GrantRolePC
  <2>10. QED
    BY <1>b, <2>3, <2>6, <2>9
<1>7. CASE GrantBack(s)
  <2>1. /\ pc[s] = "grantBack" /\ revoked[s] # <<>> /\ UNCHANGED <<todo, granted>>
        /\ Grant(s, Admin, Head(revoked[s]), "member")
    BY <1>0, <1>7 DEF GrantBack, Accounted
  <2>2. Head(revoked[s]) \in Roles /\ Tail(revoked[s]) \in Seq(Roles)
    BY <1>0, <2>1, OpsHeads
  <2>3. PgTypeOK' /\ members' = members /\ \A u \in Sessions \ {s} : own'[u] = own[u]
    BY <1>0, <2>1, <2>2, GrantEffect
  <2>4. Head(revoked[s]) # Admin
    BY <2>1 DEF Grant, GrantAccepted, Inherits
  <2>5. \A r \in Roles : own'[s][<<r, Admin>>] = own[s][<<r, Admin>>]
    BY <1>0, <2>1, <2>2, <2>4, GrantEffect DEF Pairs
  <2>6. Changed /\ pc'[s] = "restore"
    BY <1>0, <1>7, <2>2, <2>3 DEF Changed, GrantBack, PC, OpsTypeOK
  <2>7. Accounted(s)'
    BY <1>0, <2>1, <2>5, <2>6 DEF Accounted, Preparing, GrantRolePC
  <2>8. QED
    BY <1>b, <2>3, <2>6, <2>7
<1>8. CASE DropTarget(s)
  <2>1. /\ pc[s] = "drop" /\ pc'[s] = "commit" /\ UNCHANGED <<todo, granted, revoked, members>>
        /\ pc' = [pc EXCEPT ![s] = "commit"]
    BY <1>0, <1>8 DEF DropTarget, DropRole, OpsTypeOK
  <2>2. PgTypeOK' /\ \A u \in Sessions \ {s} : own'[u] = own[u]
    BY <1>0, <1>8 DEF DropTarget, DropRole, PgTypeOK, SeesRole, Level
  <2>3. \A p \in Pairs : own'[s][p] \in {"none", own[s][p]}
    BY <1>0, <1>8 DEF DropTarget, DropRole, PgTypeOK
  <2>4. Changed
    BY <1>0, <2>1, <2>2 DEF Changed, PC, OpsTypeOK
  <2>5. \A r \in Roles : <<r, Admin>> \in Pairs
    BY DEF Pairs
  <2>6. Accounted(s)'
    BY <1>0, <2>1, <2>3, <2>5 DEF Accounted, Preparing, GrantRolePC
  <2>7. QED
    BY <1>b, <2>1, <2>4, <2>6
<1>9. ASSUME NEW label \in {"done", "failed"}, Return(s, label), PgTypeOK',
             \A r \in Roles : own'[s][<<r, Admin>>] \notin {"member", "admin"},
             \A u \in Sessions \ {s} : own'[u] = own[u]
      PROVE  Changed /\ Accounted(s)'
  <2>1. Changed
    BY <1>0, <1>9 DEF Changed, Return, PC, OpsTypeOK
  <2>2. Accounted(s)'
    BY <1>0, <1>9 DEF Return, Accounted, Preparing, GrantRolePC, OpsTypeOK
  <2>3. QED
    BY <2>1, <2>2
<1>10. CASE Commit(s)
  <2>1. granted[s] = <<>> /\ CommitTxn(s) /\ Return(s, "done")
    BY <1>0, <1>10 DEF Commit, Accounted
  <2>2. QED
    BY <1>0, <1>9, <1>a, <2>1, CommitAccounted
<1>11. CASE Rollback(s)
  BY <1>9, <1>11, <1>b, RollbackAccounted DEF Rollback
<1>12. QED
  BY <1>1, <1>2, <1>3, <1>4, <1>5, <1>6, <1>7, <1>8, <1>10, <1>11 DEF Step

\* postgresql_grant_role: what it gives is what it manages.
LEMMA GrantRoleAccounted ==
  ASSUME OpsInv, NEW s \in GrantRoleOps,
         \/ \E p \in ManagedPairs, admin \in BOOLEAN : StartGrantRole(s, p, admin)
         \/ \E p \in ManagedPairs : StartGrantRoleDelete(s, p)
         \/ GrantRoleStep(s)
         \/ GrantRoleFails(s)
  PROVE  OpsInv'
<1> USE RolesGrantedAssumption, MembershipOpsAssumption DEF GoTo
<1>0. /\ s \in Sessions /\ OpsTypeOK /\ PgTypeOK /\ Accounted(s) /\ NoStrayMembership
      /\ <<>> \in Seq(Roles)
      /\ pair[s] \in Pairs /\ pair[s][1] \in Roles /\ pair[s][2] \in Roles
      /\ pair[s] = <<pair[s][1], pair[s][2]>>
  BY EmptySeq DEF OpsInv, OpsTypeOK, Pairs
<1> DEFINE Kept == /\ PgTypeOK' /\ (\A u \in Sessions \ {s} : own'[u] = own[u])
                   /\ UNCHANGED <<pair, ownerGranted, initial>>
                   /\ managed' \subseteq ManagedPairs
           OwnKept == \A r \in Roles : own'[s][<<r, Admin>>] \in {"member", "admin"} =>
                        <<r, Admin>> \in ManagedPairs \/ own[s][<<r, Admin>>] = own'[s][<<r, Admin>>]
<1>1. ASSUME NEW label \in GrantRolePC \cup {"done"}, Moves(s, label), pc[s] \in GrantRolePC,
             Kept, OwnKept, NoStrayMembership'
      PROVE  OpsInv'
  <2>1. OpsTypeOK'
    BY <1>0, <1>1 DEF OpsTypeOK, Moves, PC
  <2>2. /\ pc'[s] = label /\ granted' = granted /\ todo' = todo /\ revoked' = revoked
        /\ \A u \in Sessions \ {s} : pc'[u] = pc[u]
    BY <1>0, <1>1 DEF OpsTypeOK, Moves
  <2>3. Accounted(s)'
    BY <1>0, <1>1, <2>2 DEF Accounted, Preparing, GrantRolePC
  <2>4. QED
    BY <1>0, <1>1, <2>1, <2>2, <2>3, OneSessionActs
<1>2. ASSUME NEW p \in ManagedPairs, NEW label \in GrantRolePC, pc[s] = "idle", Moves(s, label),
             pair' = [pair EXCEPT ![s] = p], UNCHANGED <<pgVars, ownerGranted, initial>>,
             managed' \subseteq ManagedPairs
      PROVE  OpsInv'
  <2>1. OpsTypeOK'
    BY <1>0, <1>2 DEF OpsTypeOK, PgTypeOK, pgVars, Moves
  <2>2. /\ pc'[s] = label /\ granted' = granted /\ todo' = todo /\ revoked' = revoked
        /\ pair'[s] = p /\ own' = own /\ members' = members /\ ~ownerGranted[s]
        /\ \A u \in Sessions \ {s} : pc'[u] = pc[u] /\ pair'[u] = pair[u]
    BY <1>0, <1>2 DEF OpsTypeOK, Moves, pgVars, Accounted
  <2>3. Accounted(s)'
    BY <1>0, <1>2, <2>2 DEF Accounted, Preparing, GrantRolePC
  <2>4. \A u \in LoanOps : ownerGranted[u] => pair'[u] = pair[u]
    BY <2>2
  <2>5. NoStrayMembership'
    BY <1>0, <1>2, <2>2, <2>4 DEF NoStrayMembership
  <2>6. QED
    BY <1>0, <1>2, <2>1, <2>2, <2>3, <2>5, OneSessionActs
<1> HIDE DEF Kept, OwnKept
<1>3. ASSUME NEW p \in ManagedPairs, NEW admin \in BOOLEAN, StartGrantRole(s, p, admin)
      PROVE  OpsInv'
  BY <1>0, <1>2, <1>3 DEF StartGrantRole, GrantRolePC, OpsTypeOK
<1>4. ASSUME NEW p \in ManagedPairs, StartGrantRoleDelete(s, p) PROVE OpsInv'
  BY <1>0, <1>2, <1>4 DEF StartGrantRoleDelete, GrantRolePC, OpsTypeOK
<1>5. CASE GrRevoke(s) \/ GrDelete(s)
  <2>1. PICK label \in {"grGrant", "grDeleteCommit"} : Moves(s, label)
    BY <1>5 DEF GrRevoke, GrDelete
  <2>2. pc[s] \in GrantRolePC /\ Revoke(s, pair[s][1], pair[s][2]) /\ UNCHANGED moreVars
    BY <1>5 DEF GrRevoke, GrDelete, GrantRolePC
  <2>3. PgTypeOK' /\ members' = members /\ \A u \in Sessions \ {s} : own'[u] = own[u]
    BY <1>0, <2>2, RevokeEffect
  <2>4. \A p \in Pairs : own'[s][p] \in {"none", own[s][p]}
    BY <1>0, <2>2, RevokeEffect
  <2>5. Kept
    BY <1>0, <2>2, <2>3 DEF Kept, moreVars, OpsTypeOK
  <2>6. OwnKept
    BY <2>4 DEF OwnKept, Pairs
  <2>7. NoStrayMembership'
    BY <1>0, <2>2, <2>3, NothingCommitted DEF moreVars
  <2>8. QED
    BY <1>1, <2>1, <2>2, <2>5, <2>6, <2>7 DEF GrantRolePC
<1>6. CASE GrGrant(s)
  <2> DEFINE level == IF withAdmin[s] THEN "admin" ELSE "member"
  <2>1. Moves(s, "grCommit") /\ pc[s] = "grGrant" /\ UNCHANGED <<moreVars, members, roles, dropped>>
    BY <1>6 DEF GrGrant, Grant
  <2>2. own' = own \/ own' = [own EXCEPT ![s][pair[s]] = level]
    BY <1>0, <1>6 DEF GrGrant, Grant, Write
  <2>3. level \in Level
    BY DEF Level
  <2> HIDE DEF level
  <2>4. PgTypeOK' /\ (\A u \in Sessions \ {s} : own'[u] = own[u])
        /\ \A p \in Pairs : p # pair[s] => own'[s][p] = own[s][p]
    BY <1>0, <2>1, <2>2, <2>3 DEF PgTypeOK
  <2>5. pair[s] \in ManagedPairs
    BY <1>0, <2>1 DEF Accounted, GrantRolePC
  <2>6. Kept
    BY <1>0, <2>1, <2>4 DEF Kept, moreVars, OpsTypeOK
  <2>7. OwnKept
    BY <2>4, <2>5 DEF OwnKept, Pairs
  <2>8. NoStrayMembership'
    BY <1>0, <2>1, NothingCommitted DEF moreVars
  <2>9. QED
    BY <1>1, <2>1, <2>6, <2>7, <2>8 DEF GrantRolePC
<1>7. CASE GrCommit(s) \/ GrDeleteCommit(s)
  <2>1. PICK label \in {"grRead", "done"} : Moves(s, label)
    BY <1>7 DEF GrCommit, GrDeleteCommit
  <2>2. pc[s] \in GrantRolePC /\ CommitTxn(s) /\ UNCHANGED moreVars
    BY <1>7 DEF GrCommit, GrDeleteCommit, GrantRolePC
  <2>3. granted[s] = <<>>
    BY <1>0, <2>2 DEF Accounted
  <2>4. Kept /\ OwnKept /\ NoStrayMembership'
    BY <1>0, <2>2, <2>3, CommitAccounted DEF Kept, OwnKept, moreVars, OpsTypeOK
  <2>5. QED
    BY <1>1, <2>1, <2>2, <2>4 DEF GrantRolePC
<1>8. CASE GrRead(s)
  <2>1. /\ pc[s] = "grRead" /\ managed' = managed \cup {pair[s]} /\ Moves(s, "done")
        /\ UNCHANGED <<pgVars, pair, ownerGranted, initial>>
    BY <1>8 DEF GrRead
  <2>2. Kept
    BY <1>0, <2>1 DEF Kept, OpsTypeOK, PgTypeOK, pgVars, Accounted, GrantRolePC
  <2>3. OwnKept /\ NoStrayMembership'
    BY <1>0, <2>1, NothingCommitted DEF OwnKept, pgVars
  <2>4. QED
    BY <1>1, <2>1, <2>2, <2>3 DEF GrantRolePC
<1>9. CASE GrantRoleFails(s)
  <2>1. /\ Rollback(s) /\ UNCHANGED <<pair, ownerGranted, initial>>
        /\ managed' = IF pc[s] \in {"grDelete", "grDeleteCommit"} THEN managed \cup {pair[s]} ELSE managed
    BY <1>9 DEF GrantRoleFails
  <2>2. /\ PgTypeOK' /\ members' = members
        /\ \A r \in Roles : own'[s][<<r, Admin>>] \notin {"member", "admin"}
        /\ \A u \in Sessions \ {s} : own'[u] = own[u]
    BY <1>0, <2>1, RollbackAccounted
  <2>3. Return(s, "failed")
    BY <2>1 DEF Rollback
  <2>4. managed' \subseteq ManagedPairs
    BY <1>0, <2>1 DEF OpsTypeOK, Accounted, GrantRolePC
  <2>5. OpsTypeOK'
    BY <1>0, <2>1, <2>2, <2>3, <2>4 DEF OpsTypeOK, Return, PC
  <2>6. Accounted(s)'
    BY <1>0, <2>1, <2>2, <2>3 DEF Return, Accounted, Preparing, GrantRolePC, OpsTypeOK
  <2>7. \A u \in Sessions \ {s} : /\ pc'[u] = pc[u] /\ todo'[u] = todo[u]
                                  /\ granted'[u] = granted[u] /\ revoked'[u] = revoked[u]
    BY <1>0, <2>3 DEF Return, OpsTypeOK
  <2>8. NoStrayMembership'
    BY <1>0, <2>1, <2>2, NothingCommitted
  <2>9. QED
    BY <1>0, <2>1, <2>2, <2>5, <2>6, <2>7, <2>8, OneSessionActs
<1>10. QED
  BY <1>3, <1>4, <1>5, <1>6, <1>7, <1>8, <1>9 DEF GrantRoleStep

\* The loans of postgresql_database: a loan is settled once its row is seen gone.
LEMMA LoanAccounted ==
  ASSUME OpsInv, NEW s \in LoanOps, (\E r \in Roles : StartLoan(s, r)) \/ LoanStep(s)
  PROVE  OpsInv'
<1> USE RolesGrantedAssumption, MembershipOpsAssumption DEF GoTo
<1>0. /\ s \in Sessions /\ OpsTypeOK /\ PgTypeOK /\ Accounted(s) /\ NoStrayMembership
      /\ pair[s] \in Pairs
  BY DEF OpsInv, OpsTypeOK
<1>1. ASSUME NEW label \in LoanPC \cup {"done", "failed"}, Moves(s, label), PgTypeOK', own' = own,
             pc[s] \in LoanPC \cup {"idle"},
             NEW q \in Pairs, NEW g \in BOOLEAN,
             pair' = [pair EXCEPT ![s] = q], ownerGranted' = [ownerGranted EXCEPT ![s] = g],
             managed' = managed, NoStrayMembership'
      PROVE  OpsInv'
  <2>1. OpsTypeOK'
    BY <1>0, <1>1 DEF OpsTypeOK, Moves, PC
  <2>2. /\ pc'[s] = label /\ granted' = granted /\ todo' = todo /\ revoked' = revoked
        /\ \A u \in Sessions \ {s} :
             pc'[u] = pc[u] /\ pair'[u] = pair[u] /\ ownerGranted'[u] = ownerGranted[u]
    BY <1>0, <1>1 DEF OpsTypeOK, Moves
  <2>3. Accounted(s)'
    BY <1>0, <1>1, <2>2 DEF Accounted, Preparing, GrantRolePC, LoanPC
  <2>4. QED
    BY <1>0, <1>1, <2>1, <2>2, <2>3, OneSessionActs
<1>2. ASSUME NEW r \in Roles, StartLoan(s, r) PROVE OpsInv'
  <2>1. /\ pc[s] = "idle" /\ pair' = [pair EXCEPT ![s] = <<r, Admin>>] /\ Moves(s, "loanCheck")
        /\ UNCHANGED <<pgVars, managed, ownerGranted, initial>>
    BY <1>2 DEF StartLoan
  <2>2. PgTypeOK' /\ own' = own /\ members' = members /\ <<r, Admin>> \in Pairs
    BY <1>0, <2>1 DEF pgVars, PgTypeOK, Pairs
  <2>3. ~ownerGranted[s] /\ ownerGranted' = [ownerGranted EXCEPT ![s] = FALSE]
    BY <1>0, <2>1 DEF Accounted, OpsTypeOK
  <2>4. \A u \in LoanOps : ownerGranted[u] => pair'[u] = pair[u]
    BY <1>0, <2>1, <2>3 DEF OpsTypeOK
  <2>5. NoStrayMembership'
    BY <1>0, <2>1, <2>2, <2>4 DEF NoStrayMembership
  <2>6. QED
    BY <1>1, <2>1, <2>2, <2>3, <2>5 DEF LoanPC
<1>3. CASE LoanCheck(s) \/ LoanUse(s) \/ LoanRefused(s)
  <2>1. PICK label \in LoanPC \cup {"done", "failed"} : Moves(s, label)
    BY <1>3 DEF LoanCheck, LoanUse, LoanRefused, LoanPC
  <2>2. pc[s] \in LoanPC /\ UNCHANGED <<pgVars, moreVars>>
    BY <1>3 DEF LoanCheck, LoanUse, LoanRefused, LoanPC
  <2>3. PgTypeOK' /\ NoStrayMembership'
    BY <1>0, <2>2, NothingCommitted DEF pgVars, moreVars, PgTypeOK
  <2>4. pair' = [pair EXCEPT ![s] = pair[s]] /\ ownerGranted' = [ownerGranted EXCEPT ![s] = ownerGranted[s]]
    BY <1>0, <2>2 DEF moreVars, OpsTypeOK
  <2>5. ownerGranted[s] \in BOOLEAN
    BY <1>0 DEF OpsTypeOK
  <2>6. QED
    BY <1>0, <1>1, <2>1, <2>2, <2>3, <2>4, <2>5 DEF pgVars, moreVars
<1>4. CASE LoanGrant(s)
  <2>1. /\ pc[s] = "loanGrant" /\ Moves(s, "loanUse")
        /\ members' = [members EXCEPT ![pair[s]] = IF @ = "none" THEN "member" ELSE @]
        /\ ownerGranted' = [ownerGranted EXCEPT ![s] = TRUE]
        /\ UNCHANGED <<roles, own, dropped, managed, pair, initial>>
    BY <1>4 DEF LoanGrant
  <2>2. PgTypeOK'
    BY <1>0, <2>1 DEF PgTypeOK, Level
  <2>3. \A p \in Pairs : p # pair[s] => members'[p] = members[p]
    BY <1>0, <2>1 DEF PgTypeOK
  <2>4. ownerGranted'[s] /\ \A u \in Sessions : ownerGranted[u] => ownerGranted'[u]
    BY <1>0, <2>1 DEF OpsTypeOK
  <2>5. NoStrayMembership'
    BY <1>0, <2>1, <2>3, <2>4 DEF NoStrayMembership
  <2>6. pair' = [pair EXCEPT ![s] = pair[s]]
    BY <1>0, <2>1 DEF OpsTypeOK
  <2>7. QED
    BY <1>0, <1>1, <2>1, <2>2, <2>5, <2>6 DEF LoanPC
<1>5. ASSUME members'[pair[s]] = "none", \A p \in Pairs : p # pair[s] => members'[p] = members[p],
             ownerGranted' = [ownerGranted EXCEPT ![s] = FALSE], UNCHANGED <<pair, initial>>
      PROVE  NoStrayMembership'
  <2>1. \A u \in Sessions \ {s} : ownerGranted'[u] = ownerGranted[u]
    BY <1>0, <1>5 DEF OpsTypeOK
  <2>2. QED
    BY <1>0, <1>5, <2>1 DEF NoStrayMembership
<1>6. CASE LoanCheckAgain(s)
  <2>1. /\ pc[s] = "loanCheckAgain"
        /\ UNCHANGED <<pgVars, managed, pair, initial>>
    BY <1>6 DEF LoanCheckAgain
  <2>2. PgTypeOK' /\ own' = own /\ members' = members
    BY <1>0, <2>1 DEF pgVars, PgTypeOK
  <2>3. pair' = [pair EXCEPT ![s] = pair[s]]
    BY <1>0, <2>1 DEF OpsTypeOK
  <2>4. CASE members[pair[s]] # "none"
    <3>1. Moves(s, "loanRevoke") /\ UNCHANGED ownerGranted
      BY <1>6, <2>4 DEF LoanCheckAgain
    <3>2. ownerGranted' = [ownerGranted EXCEPT ![s] = ownerGranted[s]] /\ ownerGranted[s] \in BOOLEAN
      BY <1>0, <3>1 DEF OpsTypeOK
    <3>3. NoStrayMembership'
      BY <1>0, <2>1, <2>2, <3>1, NothingCommitted
    <3>4. QED
      BY <1>0, <1>1, <2>1, <2>2, <2>3, <3>1, <3>2, <3>3 DEF LoanPC
  <2>5. CASE members[pair[s]] = "none"
    <3>1. Moves(s, "done") /\ ownerGranted' = [ownerGranted EXCEPT ![s] = FALSE]
      BY <1>6, <2>5 DEF LoanCheckAgain
    <3>2. NoStrayMembership'
      BY <1>5, <2>1, <2>2, <2>5, <3>1
    <3>3. QED
      BY <1>0, <1>1, <2>1, <2>2, <2>3, <3>1, <3>2 DEF LoanPC
  <2>6. QED
    BY <2>4, <2>5
<1>7. CASE LoanRevoke(s)
  <2>1. /\ pc[s] = "loanRevoke" /\ Moves(s, "done")
        /\ members' = [members EXCEPT ![pair[s]] = "none"]
        /\ ownerGranted' = [ownerGranted EXCEPT ![s] = FALSE]
        /\ UNCHANGED <<roles, own, dropped, managed, pair, initial>>
    BY <1>7 DEF LoanRevoke
  <2>2. /\ PgTypeOK' /\ members'[pair[s]] = "none"
        /\ \A p \in Pairs : p # pair[s] => members'[p] = members[p]
    BY <1>0, <2>1 DEF PgTypeOK, Level
  <2>3. NoStrayMembership'
    BY <1>5, <2>1, <2>2
  <2>4. pair' = [pair EXCEPT ![s] = pair[s]]
    BY <1>0, <2>1 DEF OpsTypeOK
  <2>5. QED
    BY <1>0, <1>1, <2>1, <2>2, <2>3, <2>4 DEF LoanPC
<1>8. QED
  BY <1>2, <1>3, <1>4, <1>6, <1>7 DEF LoanStep

\* Whatever the sessions of the three ways do side by side, with no lock common to
\* them, the user is left with no role that was not its own, a grant_role's or on loan.
THEOREM NoStray == OpsSpec => []NoStrayMembership
<1>1. OpsInit => OpsInv
  <2> SUFFICES ASSUME OpsInit PROVE OpsInv
    OBVIOUS
  <2>1. Init /\ managed = InitialManaged /\ pair = [s \in Sessions |-> <<Admin, Admin>>]
        /\ ownerGranted = [s \in Sessions |-> FALSE] /\ initial = members
    BY DEF OpsInit
  <2>2. TypeOK
    BY <2>1, InitIInv DEF IInv
  <2>3. OpsTypeOK
    BY <2>1, <2>2, RolesGrantedAssumption, MembershipOpsAssumption DEF OpsTypeOK, TypeOK, Pairs
  <2>4. NoStrayMembership
    BY <2>1 DEF NoStrayMembership
  <2>5. ASSUME NEW s \in Sessions PROVE Accounted(s)
    BY <2>1, RolesGrantedAssumption
    DEF Init, Accounted, Preparing, GrantRolePC, NoWrites, Untouched, Pairs
  <2>6. QED
    BY <2>3, <2>4, <2>5 DEF OpsInv
<1>2. OpsInv /\ [OpsNext]_allVars => OpsInv'
  <2> SUFFICES ASSUME OpsInv, [OpsNext]_allVars PROVE OpsInv'
    OBVIOUS
  <2>1. ASSUME NEW s \in HelperOps,
               \/ \E roleList \in RoleLists : Begin(s, roleList, FALSE)
               \/ Step(s)
               \/ Rollback(s),
               UNCHANGED moreVars
        PROVE  OpsInv'
    BY <2>1, HelperAccounted, MembershipOpsAssumption
  <2>2. CASE UNCHANGED allVars
    BY <2>2 DEF allVars, vars, moreVars, pgVars, opVars, OpsInv, OpsTypeOK, PgTypeOK, Accounted, Preparing,
       NoStrayMembership
  <2>3. CASE Terminated /\ UNCHANGED moreVars
    BY <2>2, <2>3 DEF Terminated, allVars
  <2>4. QED
    BY <2>1, <2>2, <2>3, GrantRoleAccounted, LoanAccounted DEF OpsNext
<1>3. OpsInv => NoStrayMembership
  BY DEF OpsInv
<1>4. QED
  BY <1>1, <1>2, <1>3, PTL DEF OpsSpec
=============================================================================
