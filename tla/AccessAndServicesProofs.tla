------------------------- MODULE AccessAndServicesProofs -------------------------
(***************************************************************************)
(* Theorems about access_control, whose flag stops the other contracts,    *)
(* and about Services, the smaller contracts around the pool, each with    *)
(* its own inductive invariant: for every number of signers, investors,    *)
(* feeders and requests, every price and amount, and every order of calls. *)
(***************************************************************************)
EXTENDS AccessControl, Services, FiniteSums

-------------------------------------------------------------------------------
(* What executing a proposal does to the part of the state Now collects.   *)

RulingOk == Rulings \union {"none"}
RoleOf == [Address -> Roles]
MembersOf == [Grantable -> SUBSET Address]
ProposalList == Seq(ProposalRecord)

StateRecord ==
  [admin : Address, role : RoleOf, members : MembersOf, paused : BOOLEAN,
   proposals : ProposalList, pending : Nat, ruling : RulingOk, ok : BOOLEAN]

(* The proposals with one executed.                                        *)
Executed(ps, id) == [ps EXCEPT ![id].executed = TRUE]

LEMMA ExecutedList ==
  ASSUME NEW ps \in ProposalList, NEW id \in DOMAIN ps
  PROVE  /\ Executed(ps, id) \in ProposalList
         /\ DOMAIN Executed(ps, id) = DOMAIN ps /\ Len(Executed(ps, id)) = Len(ps)
         /\ Executed(ps, id)[id] = [ps[id] EXCEPT !.executed = TRUE]
         /\ Executed(ps, id)[id].executed
         /\ \A o \in DOMAIN ps : o # id => Executed(ps, id)[o] = ps[o]
<1> DEFINE p == [ps[id] EXCEPT !.executed = TRUE]
<1>1. ps[id] \in ProposalRecord
  BY DEF ProposalList
<1>2. p \in ProposalRecord /\ p.executed
  BY <1>1 DEF ProposalRecord
<1>3. Executed(ps, id) = [ps EXCEPT ![id] = p]
  BY DEF Executed
<1> HIDE DEF p
<1>4. /\ Executed(ps, id) \in ProposalList
      /\ DOMAIN Executed(ps, id) = DOMAIN ps /\ Len(Executed(ps, id)) = Len(ps)
      /\ Executed(ps, id)[id] = p
      /\ \A o \in DOMAIN ps : o # id => Executed(ps, id)[o] = ps[o]
  BY <1>2, <1>3 DEF ProposalList
<1>5. QED
  BY <1>2, <1>4 DEF p

LEMMA NowType ==
  ASSUME TypeOK
  PROVE  Now \in StateRecord
BY DEF TypeOK, AdminOk, ProposalsOk, Now, StateRecord, RulingOk, RoleOf, MembersOf, ProposalList

LEMMA DoneType ==
  ASSUME NEW st \in StateRecord, NEW id \in DOMAIN st.proposals, NEW done,
         done = [st EXCEPT !.proposals[id].executed = TRUE]
  PROVE  /\ done = [admin |-> st.admin, role |-> st.role, members |-> st.members, paused |-> st.paused,
                    proposals |-> Executed(st.proposals, id), pending |-> st.pending,
                    ruling |-> st.ruling, ok |-> st.ok]
         /\ done \in StateRecord
<1>1. done = [admin |-> st.admin, role |-> st.role, members |-> st.members, paused |-> st.paused,
              proposals |-> Executed(st.proposals, id), pending |-> st.pending,
              ruling |-> st.ruling, ok |-> st.ok]
  BY DEF StateRecord, Executed
<1>2. done \in StateRecord
  BY <1>1, ExecutedList DEF StateRecord
<1>3. QED
  BY <1>1, <1>2

(* A state with new roles and registries, and one with a new admin.        *)
WithRoles(st, role2, members2) ==
  [admin |-> st.admin, role |-> role2, members |-> members2, paused |-> st.paused,
   proposals |-> st.proposals, pending |-> st.pending, ruling |-> st.ruling, ok |-> st.ok]

LEMMA WithRolesIs ==
  ASSUME NEW st \in StateRecord, NEW role2, NEW members2, NEW z,
         z = [st EXCEPT !.role = role2, !.members = members2]
  PROVE  z = WithRoles(st, role2, members2)
BY DEF StateRecord, WithRoles

LEMMA GrantedType ==
  ASSUME NEW st \in StateRecord, NEW target \in Address, NEW r \in Grantable
  PROVE  /\ Granted(st, target, r) \in StateRecord
         /\ Granted(st, target, r).proposals = st.proposals
         /\ Granted(st, target, r).ok = st.ok /\ Granted(st, target, r).pending = st.pending
<1> DEFINE role2 == [st.role EXCEPT ![target] = r]
           members2 == [st.members EXCEPT ![r] = @ \union {target}]
<1>1. Granted(st, target, r) = WithRoles(st, role2, members2)
  <2>1. Granted(st, target, r) = [st EXCEPT !.role = role2, !.members = members2]
    BY DEF Granted
  <2> HIDE DEF role2, members2
  <2>2. QED
    BY <2>1, WithRolesIs
<1>2. role2 \in RoleOf
  BY DEF StateRecord, RoleOf, Roles, Grantable
<1>3. members2 \in MembersOf
  BY DEF StateRecord, MembersOf
<1> HIDE DEF role2, members2
<1>4. QED
  BY <1>1, <1>2, <1>3 DEF StateRecord, WithRoles

LEMMA RevokedType ==
  ASSUME NEW st \in StateRecord, NEW target \in Address
  PROVE  /\ Revoked(st, target) \in StateRecord
         /\ Revoked(st, target).proposals = st.proposals
         /\ Revoked(st, target).ok = st.ok /\ Revoked(st, target).pending = st.pending
<1> DEFINE r == st.role[target]
           role2 == [st.role EXCEPT ![target] = "None"]
           members2 == IF r \in Grantable THEN [st.members EXCEPT ![r] = @ \ {target}] ELSE st.members
<1>1. Revoked(st, target) = WithRoles(st, role2, members2)
  <2>1. Revoked(st, target) = [st EXCEPT !.role = role2, !.members = members2]
    BY DEF Revoked
  <2> HIDE DEF role2, members2
  <2>2. QED
    BY <2>1, WithRolesIs
<1>2. role2 \in RoleOf
  BY DEF StateRecord, RoleOf, Roles
<1>3. members2 \in MembersOf
  BY DEF StateRecord, MembersOf
<1> HIDE DEF role2, members2
<1>4. QED
  BY <1>1, <1>2, <1>3 DEF StateRecord, WithRoles

WithAdmin(st, new, role2, pending2, ok2) ==
  [admin |-> new, role |-> role2, members |-> st.members, paused |-> st.paused,
   proposals |-> st.proposals, pending |-> pending2, ruling |-> st.ruling, ok |-> ok2]

LEMMA WithAdminIs ==
  ASSUME NEW st \in StateRecord, NEW new, NEW role2, NEW z,
         z = [st EXCEPT !.admin = new, !.role = role2]
  PROVE  z = WithAdmin(st, new, role2, st.pending, st.ok)
BY DEF StateRecord, WithAdmin

LEMMA WithAdminOkIs ==
  ASSUME NEW st \in StateRecord, NEW new, NEW role2, NEW ok2, NEW z,
         z = [st EXCEPT !.ok = ok2, !.admin = new, !.role = role2]
  PROVE  z = WithAdmin(st, new, role2, st.pending, ok2)
BY DEF StateRecord, WithAdmin

LEMMA HandoverType ==
  ASSUME NEW st \in StateRecord, NEW new \in Address, NEW old \in Address
  PROVE  /\ Handover(st, new, old) \in StateRecord
         /\ \E role2 : Handover(st, new, old) = WithAdmin(st, new, role2, st.pending, st.ok)
<1> DEFINE role2 == [st.role EXCEPT ![new] = "Admin", ![old] = "None"]
<1>1. Handover(st, new, old) = WithAdmin(st, new, role2, st.pending, st.ok)
  <2>1. Handover(st, new, old) = [st EXCEPT !.admin = new, !.role = role2]
    BY DEF Handover
  <2> HIDE DEF role2
  <2>2. QED
    BY <2>1, WithAdminIs
<1>2. role2 \in RoleOf
  BY DEF StateRecord, RoleOf, Roles
<1> HIDE DEF role2
<1>3. WithAdmin(st, new, role2, st.pending, st.ok) \in StateRecord
  BY <1>2 DEF StateRecord, WithAdmin
<1>4. QED
  BY <1>1, <1>3

LEMMA RotationType ==
  ASSUME NEW st \in StateRecord, NEW id, st.proposals[id].action.target \in Address
  PROVE  LET z == ExecuteAdminRotation(st, id)
         IN  /\ z \in StateRecord /\ z.proposals = st.proposals
             /\ z.pending \in {0, st.pending}
             /\ z.ok => st.ok /\ NoOtherLive(st, id)
<1> DEFINE p == st.proposals[id]
           new == p.action.target
           h == Handover(st, new, st.admin)
           ok2 == /\ h.ok /\ RotationDue(p) /\ ~st.paused
                  /\ TransferTargetOk(st, new, st.admin) /\ NoOtherLive(st, id)
           pending2 == IF h.pending = id THEN 0 ELSE h.pending
           z == ExecuteAdminRotation(st, id)
<1>1. st.admin \in Address
  BY DEF StateRecord
<1>2. h \in StateRecord /\ h.proposals = st.proposals /\ h.ok = st.ok /\ h.pending = st.pending
  BY <1>1, HandoverType DEF WithAdmin
<1>3. z = [h EXCEPT !.ok = ok2, !.pending = pending2]
  BY DEF ExecuteAdminRotation
<1>4. (ok2 => st.ok /\ NoOtherLive(st, id)) /\ ok2 \in BOOLEAN
  BY <1>2
<1>5. pending2 \in {0, st.pending} /\ pending2 \in Nat
  BY <1>2 DEF StateRecord
<1> HIDE DEF h, ok2, pending2, z
<1>6. z = WithAdmin(h, h.admin, h.role, pending2, ok2)
  BY <1>2, <1>3 DEF StateRecord, WithAdmin
<1>7. z \in StateRecord
  BY <1>2, <1>4, <1>5, <1>6 DEF StateRecord, WithAdmin
<1>8. z.proposals = st.proposals /\ z.pending = pending2 /\ z.ok = ok2
  BY <1>2, <1>6 DEF WithAdmin
<1>9. QED
  BY <1>4, <1>5, <1>7, <1>8 DEF z

(* Executing a proposal marks it, and it alone; a refusal of an earlier    *)
(* action of the call stands; a rotation leaves no live proposal behind.   *)
LEMMA ApplyType ==
  ASSUME NEW st \in StateRecord, NEW id \in DOMAIN st.proposals, NEW current
  PROVE  LET z == Apply(st, id, current)
         IN  /\ z \in StateRecord /\ z.proposals = Executed(st.proposals, id)
             /\ z.pending \in {0, st.pending} /\ (z.ok => st.ok)
             /\ z.ok /\ IsRotation(st.proposals[id]) =>
                  \A o \in DOMAIN st.proposals : o # id => ~Live(st.proposals[o])
<1> DEFINE p == st.proposals[id]
           done == [st EXCEPT !.proposals[id].executed = TRUE]
           act == p.action
           z == Apply(st, id, current)
<1>1. p \in ProposalRecord
  BY DEF StateRecord, ProposalList
<1>2. p.action \in Actions
  BY <1>1 DEF ProposalRecord
<1>3. ActionOk(act)
  BY <1>2, ActionsOk
<1>4. /\ done = [admin |-> st.admin, role |-> st.role, members |-> st.members, paused |-> st.paused,
                 proposals |-> Executed(st.proposals, id), pending |-> st.pending,
                 ruling |-> st.ruling, ok |-> st.ok]
      /\ done \in StateRecord
  BY DoneType
<1>5. done.proposals = Executed(st.proposals, id) /\ done.ok = st.ok /\ done.pending = st.pending
  BY <1>4
<1>6. st.proposals \in ProposalList /\ st.role \in RoleOf /\ st.pending \in Nat
  BY DEF StateRecord
<1>7. z = CASE act.type = "Pause"   -> [done EXCEPT !.paused = TRUE]
            [] act.type = "Unpause" -> [done EXCEPT !.paused = FALSE]
            [] act.type = "GrantRole" ->
                 [Granted(done, act.target, act.role) EXCEPT !.ok = @ /\ act.target # current]
            [] act.type = "RevokeRole" -> Revoked(done, act.target)
            [] act.type = "TransferAdmin" ->
                 [done EXCEPT !.ok = @ /\ TransferTargetOk(st, act.target, current),
                              !.admin = act.target, !.role = [st.role EXCEPT ![act.target] = "Admin"]]
            [] act.type = "RotateAdmin" -> ExecuteAdminRotation(done, id)
            [] act.type = "ResolveDispute" ->
                 IF disputes THEN [done EXCEPT !.ok = @ /\ st.ruling = "none", !.ruling = act.upheld]
                             ELSE done
  BY DEF Apply
<1>8. IsRotation(st.proposals[id]) <=> act.type = "RotateAdmin"
  BY DEF IsRotation
<1> DEFINE Sound == /\ z \in StateRecord /\ z.proposals = Executed(st.proposals, id)
                    /\ z.pending \in {0, st.pending} /\ (z.ok => st.ok)
<1> HIDE DEF z, done
<1>9. CASE act.type \in {"Pause", "Unpause"}
  <2>1. \E b \in BOOLEAN : z = [done EXCEPT !.paused = b]
    BY <1>7, <1>9
  <2>2. PICK b \in BOOLEAN : z = [done EXCEPT !.paused = b]
    BY <2>1
  <2>3. Sound
    BY <1>4, <1>5, <1>6, <2>2 DEF StateRecord
  <2>4. QED
    BY <1>8, <1>9, <2>3 DEF z
<1>10. CASE act.type = "GrantRole"
  <2> DEFINE g == Granted(done, act.target, act.role)
             ok2 == g.ok /\ act.target # current
  <2>1. z = [g EXCEPT !.ok = ok2]
    BY <1>7, <1>10
  <2>2. act.target \in Address /\ act.role \in Grantable
    BY <1>3, <1>10 DEF ActionOk
  <2>3. g \in StateRecord /\ g.proposals = done.proposals /\ g.ok = done.ok /\ g.pending = done.pending
    BY <1>4, <2>2, GrantedType
  <2>4. ok2 \in BOOLEAN /\ (ok2 => st.ok)
    BY <1>5, <2>3
  <2> HIDE DEF g, ok2
  <2>5. Sound
    BY <1>5, <1>6, <2>1, <2>3, <2>4 DEF StateRecord
  <2>6. QED
    BY <1>8, <1>10, <2>5 DEF z
<1>11. CASE act.type = "RevokeRole"
  <2>1. z = Revoked(done, act.target)
    BY <1>7, <1>11
  <2>2. act.target \in Address
    BY <1>3, <1>11 DEF ActionOk
  <2>3. Sound
    BY <1>4, <1>5, <2>1, <2>2, RevokedType
  <2>4. QED
    BY <1>8, <1>11, <2>3 DEF z
<1>12. CASE act.type = "TransferAdmin"
  <2> DEFINE role2 == [st.role EXCEPT ![act.target] = "Admin"]
             ok2 == done.ok /\ TransferTargetOk(st, act.target, current)
             new == act.target
  <2>1. z = [done EXCEPT !.ok = ok2, !.admin = new, !.role = role2]
    BY <1>7, <1>12
  <2>2. new \in Address
    BY <1>3, <1>12 DEF ActionOk
  <2>3. role2 \in RoleOf
    BY <1>6 DEF RoleOf, Roles
  <2>4. ok2 \in BOOLEAN /\ (ok2 => st.ok)
    BY <1>5
  <2> HIDE DEF role2, ok2, new
  <2>5. z = WithAdmin(done, new, role2, done.pending, ok2)
    <3>1. done \in StateRecord
      BY <1>4
    <3>2. QED
      BY <2>1, <3>1, WithAdminOkIs
  <2>6. Sound
    BY <1>4, <1>5, <2>2, <2>3, <2>4, <2>5 DEF StateRecord, WithAdmin
  <2>7. QED
    BY <1>8, <1>12, <2>6 DEF z
<1>13. CASE act.type = "RotateAdmin"
  <2>1. z = ExecuteAdminRotation(done, id)
    BY <1>7, <1>13
  <2>2. act.target \in Address
    BY <1>3, <1>13 DEF ActionOk
  <2>3. /\ DOMAIN done.proposals = DOMAIN st.proposals
        /\ done.proposals[id].action = act
        /\ \A o \in DOMAIN st.proposals : o # id => done.proposals[o] = st.proposals[o]
    <3>1. done.proposals[id] = [p EXCEPT !.executed = TRUE]
      BY <1>5, <1>6, ExecutedList
    <3>2. done.proposals[id].action = act
      BY <1>1, <3>1 DEF ProposalRecord
    <3>3. /\ DOMAIN Executed(st.proposals, id) = DOMAIN st.proposals
          /\ \A o \in DOMAIN st.proposals : o # id => Executed(st.proposals, id)[o] = st.proposals[o]
      BY <1>6, ExecutedList
    <3>4. QED
      BY <1>5, <3>2, <3>3
  <2>4. Sound /\ (z.ok => NoOtherLive(done, id))
    BY <1>4, <1>5, <2>1, <2>2, <2>3, RotationType
  <2>5. NoOtherLive(done, id) => \A o \in DOMAIN st.proposals : o # id => ~Live(st.proposals[o])
    BY <2>3 DEF NoOtherLive
  <2>6. QED
    BY <2>4, <2>5 DEF z
<1>14. CASE act.type = "ResolveDispute"
  <2>1. ASSUME disputes PROVE Sound
    <3> DEFINE ok2 == done.ok /\ st.ruling = "none"
               ruling2 == act.upheld
    <3>1. z = [done EXCEPT !.ok = ok2, !.ruling = ruling2]
      BY <1>7, <1>14, <2>1
    <3>2. ruling2 \in RulingOk
      BY <1>3, <1>14 DEF ActionOk, RulingOk
    <3>3. ok2 \in BOOLEAN /\ (ok2 => st.ok)
      BY <1>5
    <3> HIDE DEF ok2, ruling2
    <3>4. z = [admin |-> done.admin, role |-> done.role, members |-> done.members,
               paused |-> done.paused, proposals |-> done.proposals, pending |-> done.pending,
               ruling |-> ruling2, ok |-> ok2]
      BY <1>4, <3>1 DEF StateRecord
    <3>5. QED
      BY <1>4, <1>5, <3>2, <3>3, <3>4 DEF StateRecord
  <2>2. ASSUME ~disputes PROVE Sound
    <3>1. z = done
      BY <1>7, <1>14, <2>2
    <3>2. QED
      BY <1>4, <1>5, <3>1
  <2>3. QED
    BY <1>8, <1>14, <2>1, <2>2 DEF z
<1>15. QED
  BY <1>3, <1>9, <1>10, <1>11, <1>12, <1>13, <1>14 DEF ActionOk

-------------------------------------------------------------------------------
(* What a call that executes proposals does: those it names, each live and *)
(* approved by enough of the signers, are executed and no other changes;   *)
(* with a rotation among them no live one is left out.                     *)
Executes(ids) ==
  /\ \A id \in ids : /\ id \in DOMAIN proposals
                     /\ Live(proposals[id]) /\ EnoughApprovals(id) /\ proposals'[id].executed
  /\ DOMAIN proposals' = DOMAIN proposals
  /\ \A o \in DOMAIN proposals : o \notin ids => proposals'[o] = proposals[o]
  /\ (\E id \in ids : IsRotation(proposals[id])) =>
       \A o \in DOMAIN proposals : Live(proposals[o]) => o \in ids

LEMMA BecomesType ==
  ASSUME TypeOK, NEW st \in StateRecord, Becomes(st), Len(st.proposals) = Len(proposals),
         st.pending \in {0, pendingRotation}
  PROVE  AdminOk' /\ ProposalsOk'
<1>1. AdminOk'
  BY DEF TypeOK, AdminOk, Becomes, StateRecord, RoleOf, MembersOf, RulingOk
<1>2. ProposalsOk'
  <2>1. proposals' \in Seq(ProposalRecord) /\ pendingRotation' \in {0, pendingRotation}
        /\ Len(proposals') = Len(proposals)
    BY DEF Becomes, StateRecord, ProposalList
  <2>2. pendingRotation \in 0..Len(proposals) /\ Len(proposals) \in Nat
    BY DEF TypeOK, ProposalsOk
  <2>3. QED
    BY <2>1, <2>2 DEF ProposalsOk
<1>3. QED
  BY <1>1, <1>2

LEMMA NowFields ==
  /\ Now.proposals = proposals /\ Now.pending = pendingRotation /\ Now.ok
  /\ Now.admin = admin /\ Now.role = role
BY DEF Now

LEMMA ExecuteActionStep ==
  ASSUME TypeOK, NEW s, NEW id \in DOMAIN proposals, ExecuteAction(s, id)
  PROVE  Executes({id}) /\ AdminOk' /\ ProposalsOk'
<1> DEFINE z == Apply(Now, id, admin)
<1>1. z.ok /\ Becomes(z) /\ Live(proposals[id]) /\ EnoughApprovals(id)
  BY DEF ExecuteAction, Executable
<1>2. /\ z \in StateRecord /\ z.proposals = Executed(proposals, id)
      /\ z.pending \in {0, pendingRotation}
      /\ z.ok /\ IsRotation(proposals[id]) =>
           \A o \in DOMAIN proposals : o # id => ~Live(proposals[o])
  BY NowType, NowFields, ApplyType
<1>3. proposals \in ProposalList
  BY DEF TypeOK, ProposalsOk, ProposalList
<1> HIDE DEF z
<1>4. proposals' = Executed(proposals, id)
  BY <1>1, <1>2 DEF Becomes
<1>5. /\ DOMAIN proposals' = DOMAIN proposals /\ Len(proposals') = Len(proposals)
      /\ proposals'[id].executed
      /\ \A o \in DOMAIN proposals : o # id => proposals'[o] = proposals[o]
  <2> DEFINE after == Executed(proposals, id)
  <2>1. /\ DOMAIN after = DOMAIN proposals /\ Len(after) = Len(proposals) /\ after[id].executed
        /\ \A o \in DOMAIN proposals : o # id => after[o] = proposals[o]
    BY <1>3, ExecutedList
  <2> HIDE DEF after
  <2>2. proposals' = after
    BY <1>4 DEF after
  <2>3. QED
    BY <2>1, <2>2
<1>6. Executes({id})
  BY <1>1, <1>2, <1>5 DEF Executes
<1>7. AdminOk' /\ ProposalsOk'
  BY <1>1, <1>2, <1>4, <1>5, BecomesType
<1>8. QED
  BY <1>6, <1>7

LEMMA ExecuteBatchStep ==
  ASSUME TypeOK, NEW s, NEW ids \in [1..2 -> DOMAIN proposals], ExecuteBatch(s, ids)
  PROVE  Executes({ids[1], ids[2]}) /\ AdminOk' /\ ProposalsOk'
<1> DEFINE i == ids[1]
           j == ids[2]
           y == Apply(Now, i, admin)
           z == Apply(y, j, admin)
<1>1. i \in DOMAIN proposals /\ j \in DOMAIN proposals
  OBVIOUS
<1>2. z.ok /\ Becomes(z)
  BY DEF ExecuteBatch
<1>3. \A id \in {i, j} : Live(proposals[id]) /\ EnoughApprovals(id)
  <2>1. DOMAIN ids = 1..2 /\ 1 \in 1..2 /\ 2 \in 1..2
    OBVIOUS
  <2>2. QED
    BY <2>1 DEF ExecuteBatch, Executable
<1>4. /\ y \in StateRecord /\ y.proposals = Executed(proposals, i)
      /\ y.pending \in {0, pendingRotation}
      /\ y.ok /\ IsRotation(proposals[i]) =>
           \A o \in DOMAIN proposals : o # i => ~Live(proposals[o])
  BY <1>1, NowType, NowFields, ApplyType
<1>5. proposals \in ProposalList
  BY DEF TypeOK, ProposalsOk, ProposalList
<1> DEFINE mid == Executed(proposals, i)
<1>6. /\ mid \in ProposalList /\ DOMAIN mid = DOMAIN proposals /\ Len(mid) = Len(proposals)
      /\ mid[i] = [proposals[i] EXCEPT !.executed = TRUE] /\ mid[i].executed
      /\ \A o \in DOMAIN proposals : o # i => mid[o] = proposals[o]
  BY <1>1, <1>5, ExecutedList
<1> HIDE DEF mid, y
<1>7. y.proposals = mid
  BY <1>4 DEF mid
<1>8. /\ z \in StateRecord /\ z.proposals = Executed(mid, j)
      /\ z.pending \in {0, y.pending} /\ (z.ok => y.ok)
      /\ z.ok /\ IsRotation(mid[j]) => \A o \in DOMAIN mid : o # j => ~Live(mid[o])
  BY <1>1, <1>4, <1>6, <1>7, ApplyType
<1> HIDE DEF z, i, j
<1>9. proposals' = Executed(mid, j)
  BY <1>2, <1>8 DEF Becomes
<1>10. /\ DOMAIN proposals' = DOMAIN proposals /\ Len(proposals') = Len(proposals)
       /\ proposals'[j].executed
       /\ \A o \in DOMAIN proposals : o # j => proposals'[o] = mid[o]
  <2> DEFINE after == Executed(mid, j)
  <2>1. /\ DOMAIN after = DOMAIN mid /\ Len(after) = Len(mid) /\ after[j].executed
        /\ \A o \in DOMAIN mid : o # j => after[o] = mid[o]
    BY <1>1, <1>6, ExecutedList
  <2> HIDE DEF after
  <2>2. proposals' = after
    BY <1>9 DEF after
  <2>3. QED
    BY <1>6, <2>1, <2>2
<1>11. \A id \in {i, j} : proposals'[id].executed
  BY <1>1, <1>6, <1>10
<1>12. \A o \in DOMAIN proposals : o \notin {i, j} => proposals'[o] = proposals[o]
  BY <1>6, <1>10
<1>13. ASSUME NEW id \in {i, j}, IsRotation(proposals[id]), NEW o \in DOMAIN proposals,
              Live(proposals[o])
       PROVE  o \in {i, j}
  <2>1. CASE id = i
    BY <1>2, <1>4, <1>8, <1>13, <2>1
  <2>2. CASE id = j /\ j # i
    <3>1. mid[j] = proposals[j]
      BY <1>1, <1>6, <2>2
    <3>2. IsRotation(mid[j])
      BY <1>13, <2>2, <3>1
    <3>3. \A x \in DOMAIN mid : x # j => ~Live(mid[x])
      BY <1>2, <1>8, <3>2
    <3>4. QED
      BY <1>6, <1>13, <3>3
  <2>3. QED
    BY <1>13, <2>1, <2>2
<1>14. Executes({i, j})
  BY <1>1, <1>3, <1>10, <1>11, <1>12, <1>13 DEF Executes
<1>15. z.pending \in {0, pendingRotation} /\ Len(z.proposals) = Len(proposals)
  BY <1>4, <1>8, <1>9, <1>10
<1>16. AdminOk' /\ ProposalsOk'
  BY <1>2, <1>8, <1>15, BecomesType
<1>17. QED
  BY <1>14, <1>16 DEF i, j

-------------------------------------------------------------------------------
(* Storage keeps its types: the keys an operation leaves alone.            *)

LEMMA AdminKept ==
  ASSUME TypeOK, UNCHANGED <<adminVars, disputes, ruling, upgrade, now>> PROVE AdminOk'
BY DEF TypeOK, AdminOk, adminVars

LEMMA ProposalsKept ==
  ASSUME TypeOK, UNCHANGED <<proposals, pendingRotation>> PROVE ProposalsOk'
BY DEF TypeOK, ProposalsOk

LEMMA ParamsKept == ASSUME TypeOK, UNCHANGED paramVars PROVE ParamsOk'
BY DEF TypeOK, ParamsOk, paramVars

LEMMA CommunityKept == ASSUME TypeOK, UNCHANGED communityVars PROVE CommunityOk'
BY DEF TypeOK, CommunityOk, communityVars

LEMMA CouncilKept == ASSUME TypeOK, UNCHANGED councilVars PROVE CouncilOk'
BY DEF TypeOK, CouncilOk, councilVars

LEMMA DelegationKept == ASSUME TypeOK, UNCHANGED delegationVars PROVE DelegationOk'
BY DEF TypeOK, DelegationOk, delegationVars

SignersOk == Configured => ConfigOk(config)

LEMMA SignersKept == ASSUME TypeOK, UNCHANGED config PROVE SignersOk'
BY DEF TypeOK, SignersOk, Configured

LEMMA TypeParts ==
  TypeOK <=> /\ AdminOk /\ ProposalsOk /\ ParamsOk /\ CommunityOk /\ CouncilOk /\ DelegationOk
             /\ SignersOk
BY DEF TypeOK, SignersOk

LEMMA TypePartsNext ==
  ASSUME AdminOk', ProposalsOk', ParamsOk', CommunityOk', CouncilOk', DelegationOk', SignersOk'
  PROVE  TypeOK'
BY DEF TypeOK, SignersOk

(* A step that leaves the closed proposals, parameter changes, elections   *)
(* and recoveries as they are.                                             *)
FinalProposals == \A id \in DOMAIN proposals : Closed(proposals[id]) => proposals'[id] = proposals[id]
FinalParams    == \A id \in DOMAIN params : Closed(params[id]) => params'[id] = params[id]
FinalElections == \A id \in DOMAIN elections : elections[id].concluded => elections'[id] = elections[id]
FinalRecoveries ==
  \A id \in DOMAIN recoveries :
    /\ recoveries[id].executed => recoveries'[id] = recoveries[id]
    /\ recoveries[id].objections # {} => ~recoveries'[id].executed

(* A step that executes no proposal, and one that leaves the admin's       *)
(* powers alone while a multisig governs.                                  *)
NoneExecuted == \A id \in DOMAIN proposals : proposals'[id].executed => proposals[id].executed
PowersKept   == Configured => admin' = admin /\ role' = role /\ (paused => paused')

Quiet ==
  /\ FinalProposals /\ FinalParams /\ FinalElections /\ FinalRecoveries
  /\ NoneExecuted /\ PowersKept

(* No executed recovery has an objection.                                  *)
Unopposed == \A id \in DOMAIN recoveries : recoveries[id].objections # {} => ~recoveries[id].executed

Inv == TypeOK /\ Unopposed

-------------------------------------------------------------------------------
(* The admin acting alone.                                                 *)

LEMMA ListsKept ==
  ASSUME Inv, UNCHANGED <<proposals, params, elections, recoveries>>, PowersKept
  PROVE  Quiet /\ Unopposed'
BY DEF Inv, Unopposed, Quiet, FinalProposals, FinalParams, FinalElections, FinalRecoveries, NoneExecuted

LEMMA BecomesAlone ==
  ASSUME Inv, NEW st \in StateRecord, Becomes(st), st.proposals = proposals,
         st.pending = pendingRotation, ~Configured
  PROVE  Inv' /\ Quiet
<1>1. AdminOk' /\ ProposalsOk'
  BY BecomesType DEF Inv
<1>2. ParamsOk' /\ CommunityOk' /\ CouncilOk' /\ DelegationOk' /\ SignersOk'
  BY ParamsKept, CommunityKept, CouncilKept, DelegationKept, SignersKept DEF Inv, Becomes
<1>3. Quiet /\ Unopposed'
  BY ListsKept DEF Becomes, paramVars, councilVars, PowersKept
<1>4. QED
  BY <1>1, <1>2, <1>3, TypePartsNext DEF Inv

LEMMA AloneStep == ASSUME Inv, Alone PROVE Inv' /\ Quiet
<1>1. PICK a \in Address :
        \/ Pause(a) \/ Unpause(a) \/ EmergencyPauseByGuardian(a) \/ SetDisputeResolution(a)
        \/ \E t \in Address : RevokeRole(a, t) \/ TransferAdmin(a, t) \/ RotateAdmin(a, t)
        \/ \E t \in Address, r \in Grantable : GrantRole(a, t, r)
        \/ \E c \in Configs : ConfigureMultisig(a, c)
  BY DEF Alone
<1>2. Now \in StateRecord
  BY NowType DEF Inv
<1>3. CASE Pause(a) \/ Unpause(a) \/ EmergencyPauseByGuardian(a) \/ SetDisputeResolution(a)
  <2>1. AdminOk'
    <3>1. AdminOk
      BY DEF Inv, TypeOK
    <3>2. UNCHANGED <<admin, role, members, ruling, upgrade, now>>
      BY <1>3 DEF Pause, Unpause, EmergencyPauseByGuardian, SetDisputeResolution, actionVars, adminVars
    <3>3. paused' \in {paused, TRUE, FALSE} /\ disputes' \in {disputes, TRUE} /\ initiator' \in {initiator, a}
      BY <1>3 DEF Pause, Unpause, EmergencyPauseByGuardian, SetDisputeResolution, actionVars, adminVars
    <3>4. QED
      BY <3>1, <3>2, <3>3 DEF AdminOk
  <2>2. UNCHANGED <<proposals, pendingRotation, paramVars, communityVars, councilVars, delegationVars, config>>
    BY <1>3 DEF Pause, Unpause, EmergencyPauseByGuardian, SetDisputeResolution, actionVars
  <2>3. PowersKept
    BY <1>3 DEF Pause, Unpause, EmergencyPauseByGuardian, SetDisputeResolution, ActsDirectly,
                PowersKept, adminVars
  <2>4. Quiet /\ Unopposed'
    BY <2>2, <2>3, ListsKept DEF paramVars, councilVars
  <2>5. QED
    BY <2>1, <2>2, <2>4, ProposalsKept, ParamsKept, CommunityKept, CouncilKept, DelegationKept,
       SignersKept, TypePartsNext DEF Inv
<1>4. ASSUME NEW t \in Address, RevokeRole(a, t) PROVE Inv' /\ Quiet
  BY <1>2, <1>4, RevokedType, NowFields, BecomesAlone DEF RevokeRole, ActsDirectly
<1>5. ASSUME NEW t \in Address, TransferAdmin(a, t) \/ RotateAdmin(a, t) PROVE Inv' /\ Quiet
  <2>1. Becomes(Handover(Now, t, a)) /\ ~Configured
    BY <1>5 DEF TransferAdmin, RotateAdmin, ActsDirectly
  <2>2. /\ Handover(Now, t, a) \in StateRecord
        /\ Handover(Now, t, a).proposals = proposals
        /\ Handover(Now, t, a).pending = pendingRotation
    BY <1>2, HandoverType, NowFields DEF WithAdmin
  <2>3. QED
    BY <2>1, <2>2, BecomesAlone
<1>6. ASSUME NEW t \in Address, NEW r \in Grantable, GrantRole(a, t, r) PROVE Inv' /\ Quiet
  BY <1>2, <1>6, GrantedType, NowFields, BecomesAlone DEF GrantRole, ActsDirectly
<1>7. ASSUME NEW c \in Configs, ConfigureMultisig(a, c) PROVE Inv' /\ Quiet
  <2>1. UNCHANGED <<adminVars, actionVars, paramVars, communityVars, councilVars, delegationVars, upgrade, now>>
    BY <1>7 DEF ConfigureMultisig
  <2>2. ConfigOk(c) /\ config' = c
    BY <1>7, ConfigsOk DEF ConfigureMultisig, ConfigOk
  <2>3. SignersOk'
    BY <2>2 DEF SignersOk, ConfigOk
  <2>4. PowersKept
    BY <2>1 DEF PowersKept, adminVars
  <2>5. Quiet /\ Unopposed'
    BY <2>1, <2>4, ListsKept DEF paramVars, councilVars, actionVars
  <2>6. QED
    BY <2>1, <2>3, <2>5, AdminKept, ProposalsKept, ParamsKept, CommunityKept, CouncilKept,
       DelegationKept, TypePartsNext DEF Inv, actionVars
<1>8. QED
  BY <1>1, <1>3, <1>4, <1>5, <1>6, <1>7

-------------------------------------------------------------------------------
(* Proposed actions.                                                       *)

(* Facts about lists that only grow, or in which one entry changes.        *)
LEMMA AppendType ==
  ASSUME NEW R, NEW q \in Seq(R), NEW r \in R
  PROVE  /\ Append(q, r) \in Seq(R) /\ Len(Append(q, r)) = Len(q) + 1
         /\ \A id \in DOMAIN q : Append(q, r)[id] = q[id]
         /\ Append(q, r)[Len(q) + 1] = r
         /\ DOMAIN Append(q, r) = DOMAIN q \union {Len(q) + 1}
OBVIOUS

LEMMA ChangeType ==
  ASSUME NEW R, NEW q \in Seq(R), NEW id \in DOMAIN q, NEW r \in R
  PROVE  /\ [q EXCEPT ![id] = r] \in Seq(R) /\ Len([q EXCEPT ![id] = r]) = Len(q)
         /\ DOMAIN [q EXCEPT ![id] = r] = DOMAIN q
         /\ [q EXCEPT ![id] = r][id] = r
         /\ \A o \in DOMAIN q : o # id => [q EXCEPT ![id] = r][o] = q[o]
OBVIOUS

LEMMA ProposalTypes ==
  ASSUME TypeOK, NEW id \in DOMAIN proposals
  PROVE  /\ proposals[id] \in ProposalRecord /\ proposals[id].action \in Actions
         /\ proposals[id].approvals \subseteq Address
<1>1. proposals[id] \in ProposalRecord
  BY DEF TypeOK, ProposalsOk
<1>2. QED
  BY <1>1 DEF ProposalRecord

LEMMA NewProposalType ==
  ASSUME TypeOK, NEW act \in Actions, NEW s \in Address, NEW by \in Address
  PROVE  NewProposal(act, by, s) \in ProposalRecord /\ ~NewProposal(act, by, s).executed
<1>1. now \in Time /\ now + Ttl \in Instants
  BY BoundsOk, DelaysOk DEF TypeOK, AdminOk, Time, Instants
<1>2. QED
  BY <1>1 DEF NewProposal, ProposalRecord

(* The list of proposals after a new one, or after a change of one that is *)
(* still open.                                                             *)
LEMMA ProposalsGrow ==
  ASSUME Inv, NEW q \in Seq(ProposalRecord), DOMAIN q = DOMAIN proposals, Len(q) = Len(proposals),
         \A id \in DOMAIN proposals : Closed(proposals[id]) => q[id] = proposals[id],
         \A id \in DOMAIN proposals : q[id].executed => proposals[id].executed,
         NEW p \in ProposalRecord, proposals' = Append(q, p),
         pendingRotation' \in {pendingRotation, Len(proposals) + 1}
  PROVE  ProposalsOk' /\ FinalProposals /\ NoneExecuted
<1>1. pendingRotation \in 0..Len(proposals) /\ Len(proposals) \in Nat
  BY DEF Inv, TypeOK, ProposalsOk
<1>2. /\ proposals' \in Seq(ProposalRecord) /\ Len(proposals') = Len(proposals) + 1
      /\ \A id \in DOMAIN proposals : proposals'[id] = q[id]
  BY AppendType
<1>3. ProposalsOk'
  BY <1>1, <1>2 DEF ProposalsOk
<1>4. QED
  BY <1>2, <1>3 DEF FinalProposals, NoneExecuted

LEMMA ProposalChanges ==
  ASSUME Inv, NEW id \in DOMAIN proposals, NEW p \in ProposalRecord, ~Closed(proposals[id]),
         ~p.executed, proposals' = [proposals EXCEPT ![id] = p], UNCHANGED pendingRotation
  PROVE  ProposalsOk' /\ FinalProposals /\ NoneExecuted
<1>1. proposals \in Seq(ProposalRecord) /\ pendingRotation \in 0..Len(proposals)
  BY DEF Inv, TypeOK, ProposalsOk
<1>2. /\ proposals' \in Seq(ProposalRecord) /\ Len(proposals') = Len(proposals)
      /\ proposals'[id] = p
      /\ \A o \in DOMAIN proposals : o # id => proposals'[o] = proposals[o]
  BY <1>1, ChangeType
<1>3. ProposalsOk'
  BY <1>1, <1>2 DEF ProposalsOk
<1>4. FinalProposals /\ NoneExecuted
  BY <1>2 DEF FinalProposals, NoneExecuted
<1>5. QED
  BY <1>3, <1>4

(* Superseding cancels an open rotation and changes nothing else.          *)
LEMMA SupersedingType ==
  ASSUME Inv
  PROVE  /\ Superseding \in Seq(ProposalRecord) /\ DOMAIN Superseding = DOMAIN proposals
         /\ Len(Superseding) = Len(proposals)
         /\ \A id \in DOMAIN proposals : Closed(proposals[id]) => Superseding[id] = proposals[id]
         /\ \A id \in DOMAIN proposals : Superseding[id].executed => proposals[id].executed
<1>1. proposals \in Seq(ProposalRecord) /\ pendingRotation \in 0..Len(proposals)
  BY DEF Inv, TypeOK, ProposalsOk
<1>2. CASE pendingRotation # 0 /\ Live(proposals[pendingRotation]) /\ IsRotation(proposals[pendingRotation])
  <2> DEFINE p == [proposals[pendingRotation] EXCEPT !.cancelled = TRUE]
  <2>1. pendingRotation \in DOMAIN proposals
    BY <1>1, <1>2
  <2>2. p \in ProposalRecord /\ p.executed = proposals[pendingRotation].executed
    BY <2>1, ProposalTypes DEF ProposalRecord, Inv
  <2>3. ~Closed(proposals[pendingRotation])
    BY <1>2 DEF Live, Pending, Closed
  <2>4. Superseding = [proposals EXCEPT ![pendingRotation] = p]
    BY <1>2 DEF Superseding
  <2> HIDE DEF p
  <2> DEFINE q == [proposals EXCEPT ![pendingRotation] = p]
  <2>5. /\ q \in Seq(ProposalRecord) /\ Len(q) = Len(proposals) /\ DOMAIN q = DOMAIN proposals
        /\ q[pendingRotation] = p
        /\ \A o \in DOMAIN proposals : o # pendingRotation => q[o] = proposals[o]
    BY <1>1, <2>1, <2>2, ChangeType
  <2> HIDE DEF q
  <2>6. Superseding = q
    BY <2>4 DEF q
  <2>7. QED
    BY <2>2, <2>3, <2>5, <2>6
<1>3. CASE ~(pendingRotation # 0 /\ Live(proposals[pendingRotation]) /\ IsRotation(proposals[pendingRotation]))
  <2>1. Superseding = proposals
    BY <1>3 DEF Superseding
  <2>2. QED
    BY <1>1, <2>1
<1>4. QED
  BY <1>2, <1>3

(* A step of the proposals that touches no other key.                      *)
OnlyProposals ==
  UNCHANGED <<adminVars, config, disputes, ruling, paramVars, communityVars, councilVars,
              delegationVars, upgrade, now>>

LEMMA OnlyProposalsStep ==
  ASSUME Inv, OnlyProposals, ProposalsOk', FinalProposals, NoneExecuted
  PROVE  Inv' /\ Quiet
<1>1. FinalParams /\ FinalElections /\ FinalRecoveries /\ Unopposed'
  BY DEF OnlyProposals, paramVars, councilVars, FinalParams, FinalElections, FinalRecoveries,
         Inv, Unopposed
<1>2. PowersKept
  BY DEF OnlyProposals, adminVars, PowersKept
<1>3. TypeOK'
  BY AdminKept, ParamsKept, CommunityKept, CouncilKept, DelegationKept, SignersKept, TypePartsNext
     DEF OnlyProposals, Inv
<1>4. QED
  BY <1>1, <1>2, <1>3 DEF Inv, Quiet

LEMMA ProposeStep ==
  ASSUME Inv, NEW s \in Address, NEW act \in Actions, ProposeAction(s, act)
  PROVE  Inv' /\ Quiet
<1> DEFINE rotation == act.type = "RotateAdmin"
           q == IF rotation THEN Superseding ELSE proposals
           p == NewProposal(act, s, s)
<1>1. p \in ProposalRecord
  BY NewProposalType DEF Inv
<1>2. /\ q \in Seq(ProposalRecord) /\ DOMAIN q = DOMAIN proposals /\ Len(q) = Len(proposals)
      /\ \A id \in DOMAIN proposals : Closed(proposals[id]) => q[id] = proposals[id]
      /\ \A id \in DOMAIN proposals : q[id].executed => proposals[id].executed
  <2>1. proposals \in Seq(ProposalRecord)
    BY DEF Inv, TypeOK, ProposalsOk
  <2>2. QED
    BY <2>1, SupersedingType
<1>3. proposals' = Append(q, p)
  BY DEF ProposeAction
<1>4. pendingRotation' \in {pendingRotation, Len(proposals) + 1}
  BY DEF ProposeAction
<1> HIDE DEF q, p, rotation
<1>5. ProposalsOk' /\ FinalProposals /\ NoneExecuted
  BY <1>1, <1>2, <1>3, <1>4, ProposalsGrow
<1>6. OnlyProposals
  BY DEF ProposeAction, OnlyProposals
<1>7. QED
  BY <1>5, <1>6, OnlyProposalsStep

LEMMA ApproveStep ==
  ASSUME Inv, NEW s \in Address, NEW id \in DOMAIN proposals, ApproveAction(s, id)
  PROVE  Inv' /\ Quiet
<1> DEFINE p == [proposals[id] EXCEPT !.approvals = @ \union {s}]
<1>1. p \in ProposalRecord /\ p.executed = proposals[id].executed
  BY ProposalTypes DEF ProposalRecord, Inv
<1>2. proposals' = [proposals EXCEPT ![id] = p] /\ ~Closed(proposals[id]) /\ UNCHANGED pendingRotation
  BY DEF ApproveAction, Live, Pending, Closed
<1> HIDE DEF p
<1>3. ~p.executed
  BY <1>1, <1>2 DEF Closed
<1>4. ProposalsOk' /\ FinalProposals /\ NoneExecuted
  BY <1>1, <1>2, <1>3, ProposalChanges
<1>5. OnlyProposals
  BY DEF ApproveAction, OnlyProposals
<1>6. QED
  BY <1>4, <1>5, OnlyProposalsStep

LEMMA CancelStep ==
  ASSUME Inv, NEW s \in Address, NEW id \in DOMAIN proposals, CancelAction(s, id)
  PROVE  Inv' /\ Quiet
<1> DEFINE p == [proposals[id] EXCEPT !.cancelled = TRUE]
<1>1. p \in ProposalRecord /\ p.executed = proposals[id].executed
  BY ProposalTypes DEF ProposalRecord, Inv
<1>2. proposals' = [proposals EXCEPT ![id] = p] /\ ~Closed(proposals[id]) /\ UNCHANGED pendingRotation
  BY DEF CancelAction, Pending, Closed
<1> HIDE DEF p
<1>3. ~p.executed
  BY <1>1, <1>2 DEF Closed
<1>4. ProposalsOk' /\ FinalProposals /\ NoneExecuted
  BY <1>1, <1>2, <1>3, ProposalChanges
<1>5. OnlyProposals
  BY DEF CancelAction, OnlyProposals
<1>6. QED
  BY <1>4, <1>5, OnlyProposalsStep

(* A step that executes proposals.                                         *)
Executing ==
  /\ \E ids \in SUBSET DOMAIN proposals : ids # {} /\ Executes(ids)
  /\ FinalProposals /\ FinalParams /\ FinalElections /\ FinalRecoveries

LEMMA ExecutesStep ==
  ASSUME Inv, NEW ids \in SUBSET DOMAIN proposals, ids # {}, Executes(ids), AdminOk', ProposalsOk',
         \E st : Becomes(st)
  PROVE  Inv' /\ Executing
<1>1. UNCHANGED <<config, paramVars, communityVars, councilVars, delegationVars>>
  BY DEF Becomes
<1>2. FinalProposals
  BY DEF Executes, FinalProposals, Live, Pending, Closed
<1>3. FinalParams /\ FinalElections /\ FinalRecoveries /\ Unopposed'
  BY <1>1 DEF paramVars, councilVars, FinalParams, FinalElections, FinalRecoveries, Inv, Unopposed
<1>4. TypeOK'
  BY <1>1, ParamsKept, CommunityKept, CouncilKept, DelegationKept, SignersKept, TypePartsNext DEF Inv
<1>5. QED
  BY <1>2, <1>3, <1>4 DEF Inv, Executing

LEMMA ProposingStep == ASSUME Inv, Proposing PROVE Inv' /\ (Quiet \/ Executing)
<1>1. PICK s \in Address :
        \/ \E act \in Actions : ProposeAction(s, act)
        \/ \E id \in DOMAIN proposals : ApproveAction(s, id) \/ ExecuteAction(s, id) \/ CancelAction(s, id)
        \/ \E ids \in [1..2 -> DOMAIN proposals] : ExecuteBatch(s, ids)
  BY DEF Proposing
<1>2. ASSUME NEW id \in DOMAIN proposals, ExecuteAction(s, id) PROVE Inv' /\ Executing
  <2>1. Executes({id}) /\ AdminOk' /\ ProposalsOk'
    BY <1>2, ExecuteActionStep DEF Inv
  <2>2. \E st : Becomes(st)
    BY <1>2 DEF ExecuteAction
  <2>3. {id} \in SUBSET DOMAIN proposals /\ {id} # {}
    OBVIOUS
  <2>4. QED
    BY <2>1, <2>2, <2>3, ExecutesStep
<1>3. ASSUME NEW ids \in [1..2 -> DOMAIN proposals], ExecuteBatch(s, ids) PROVE Inv' /\ Executing
  <2> DEFINE pair == {ids[1], ids[2]}
  <2>1. Executes(pair) /\ AdminOk' /\ ProposalsOk'
    BY <1>3, ExecuteBatchStep DEF Inv
  <2>2. \E st : Becomes(st)
    BY <1>3 DEF ExecuteBatch
  <2>3. pair \in SUBSET DOMAIN proposals /\ pair # {}
    OBVIOUS
  <2> HIDE DEF pair
  <2>4. QED
    BY <2>1, <2>2, <2>3, ExecutesStep
<1>4. QED
  BY <1>1, <1>2, <1>3, ProposeStep, ApproveStep, CancelStep

-------------------------------------------------------------------------------
(* Parameters, community proposals and delegation.                         *)

LEMMA ParamTypes ==
  ASSUME TypeOK, NEW id \in DOMAIN params
  PROVE  /\ params[id] \in ParamRecord /\ params[id].approvals \subseteq Address
         /\ params[id].action.key \in Parameters /\ params[id].action.value \in Values
<1>1. params[id] \in ParamRecord
  BY DEF TypeOK, ParamsOk
<1>2. params[id].action \in ParameterChange
  BY <1>1 DEF ParamRecord
<1>3. QED
  BY <1>1, <1>2 DEF ParamRecord, ParameterChange

(* A step that touches the parameters only.                                *)
LEMMA OnlyParams ==
  ASSUME Inv, ParamsOk', FinalParams,
         UNCHANGED <<adminVars, config, actionVars, communityVars, councilVars, delegationVars,
                     upgrade, now>>
  PROVE  Inv' /\ Quiet
<1>1. FinalProposals /\ FinalElections /\ FinalRecoveries /\ Unopposed' /\ NoneExecuted
  BY DEF actionVars, councilVars, FinalProposals, FinalElections, FinalRecoveries, NoneExecuted,
         Inv, Unopposed
<1>2. PowersKept
  BY DEF adminVars, PowersKept
<1>3. TypeOK'
  BY AdminKept, ProposalsKept, CommunityKept, CouncilKept, DelegationKept, SignersKept, TypePartsNext
     DEF Inv, actionVars
<1>4. QED
  BY <1>1, <1>2, <1>3 DEF Inv, Quiet

LEMMA ParamChanges ==
  ASSUME Inv, NEW id \in DOMAIN params, NEW p \in ParamRecord, ~Closed(params[id]),
         params' = [params EXCEPT ![id] = p], parameter' \in [Parameters -> Values \union {-1}]
  PROVE  ParamsOk' /\ FinalParams
<1>1. params \in Seq(ParamRecord)
  BY DEF Inv, TypeOK, ParamsOk
<1>2. /\ params' \in Seq(ParamRecord)
      /\ \A o \in DOMAIN params : o # id => params'[o] = params[o]
  BY <1>1, ChangeType
<1>3. QED
  BY <1>2 DEF ParamsOk, FinalParams

LEMMA ParametrizingStep == ASSUME Inv, Parametrizing PROVE Inv' /\ Quiet
<1>1. PICK s \in Address :
        \/ \E k \in Parameters, v \in Values : ProposeParameterChange(s, k, v)
        \/ \E id \in DOMAIN params :
             VoteParameterChange(s, id) \/ ExecuteParameterChange(s, id) \/ CancelParameterChange(s, id)
  BY DEF Parametrizing
<1>2. params \in Seq(ParamRecord) /\ parameter \in [Parameters -> Values \union {-1}]
  BY DEF Inv, TypeOK, ParamsOk
<1>3. ASSUME NEW k \in Parameters, NEW v \in Values, ProposeParameterChange(s, k, v) PROVE Inv' /\ Quiet
  <2> DEFINE p == NewProposal([type |-> "Parameter", key |-> k, value |-> v], s, s)
  <2>1. now \in Time /\ now + Ttl \in Instants
    BY BoundsOk, DelaysOk DEF Inv, TypeOK, AdminOk, Time, Instants
  <2>2. p \in ParamRecord
    BY <2>1 DEF NewProposal, ParamRecord, ParameterChange
  <2>3. params' = Append(params, p) /\ UNCHANGED parameter
    BY <1>3 DEF ProposeParameterChange
  <2> HIDE DEF p
  <2>4. ParamsOk' /\ FinalParams
    BY <1>2, <2>2, <2>3, AppendType DEF ParamsOk, FinalParams
  <2>5. QED
    BY <1>3, <2>4, OnlyParams DEF ProposeParameterChange
<1>4. ASSUME NEW id \in DOMAIN params, VoteParameterChange(s, id) PROVE Inv' /\ Quiet
  <2> DEFINE p == [params[id] EXCEPT !.approvals = @ \union {s}]
  <2>1. p \in ParamRecord
    BY ParamTypes DEF ParamRecord, Inv
  <2>2. params' = [params EXCEPT ![id] = p] /\ ~Closed(params[id]) /\ UNCHANGED parameter
    BY <1>4 DEF VoteParameterChange, Pending, Closed
  <2> HIDE DEF p
  <2>3. ParamsOk' /\ FinalParams
    BY <1>2, <2>1, <2>2, ParamChanges
  <2>4. QED
    BY <1>4, <2>3, OnlyParams DEF VoteParameterChange
<1>5. ASSUME NEW id \in DOMAIN params, CancelParameterChange(s, id) PROVE Inv' /\ Quiet
  <2> DEFINE p == [params[id] EXCEPT !.cancelled = TRUE]
  <2>1. p \in ParamRecord
    BY ParamTypes DEF ParamRecord, Inv
  <2>2. params' = [params EXCEPT ![id] = p] /\ ~Closed(params[id]) /\ UNCHANGED parameter
    BY <1>5 DEF CancelParameterChange, Pending, Closed
  <2> HIDE DEF p
  <2>3. ParamsOk' /\ FinalParams
    BY <1>2, <2>1, <2>2, ParamChanges
  <2>4. QED
    BY <1>5, <2>3, OnlyParams DEF CancelParameterChange
<1>6. ASSUME NEW id \in DOMAIN params, ExecuteParameterChange(s, id) PROVE Inv' /\ Quiet
  <2> DEFINE p == [params[id] EXCEPT !.executed = TRUE]
  <2>1. p \in ParamRecord
    BY ParamTypes DEF ParamRecord, Inv
  <2>2. params' = [params EXCEPT ![id] = p] /\ ~Closed(params[id])
    BY <1>6 DEF ExecuteParameterChange, Pending, Closed
  <2>3. parameter' \in [Parameters -> Values \union {-1}]
    BY <1>2, <1>6, ParamTypes DEF ExecuteParameterChange, Inv
  <2> HIDE DEF p
  <2>4. ParamsOk' /\ FinalParams
    BY <2>1, <2>2, <2>3, ParamChanges
  <2>5. QED
    BY <1>6, <2>4, OnlyParams DEF ExecuteParameterChange
<1>7. QED
  BY <1>1, <1>3, <1>4, <1>5, <1>6

LEMMA CommunityTypes ==
  ASSUME TypeOK, NEW id \in DOMAIN community
  PROVE  /\ community[id] \in CommunityRecord
         /\ community[id].action \in Actions /\ community[id].submitter \in Address
<1>1. community[id] \in CommunityRecord
  BY DEF TypeOK, CommunityOk
<1>2. QED
  BY <1>1 DEF CommunityRecord

LEMMA SponsoringStep == ASSUME Inv, Sponsoring PROVE Inv' /\ Quiet
<1>1. PICK a \in Address :
        \/ \E act \in Actions : SubmitCommunityProposal(a, act)
        \/ \E id \in DOMAIN community : SponsorCommunityProposal(a, id)
  BY DEF Sponsoring
<1>2. /\ community \in Seq(CommunityRecord) /\ lastSubmission \in [Address -> Time]
      /\ proposals \in Seq(ProposalRecord) /\ now \in Time /\ now + Ttl \in Instants
  BY BoundsOk, DelaysOk DEF Inv, TypeOK, CommunityOk, ProposalsOk, AdminOk, Time, Instants
<1>3. ASSUME NEW act \in Actions, SubmitCommunityProposal(a, act) PROVE Inv' /\ Quiet
  <2> DEFINE c == [submitter |-> a, action |-> act, expires |-> now + Ttl, open |-> TRUE]
  <2>1. c \in CommunityRecord
    BY <1>2 DEF CommunityRecord
  <2>2. /\ community' = Append(community, c) /\ lastSubmission' = [lastSubmission EXCEPT ![a] = now]
        /\ UNCHANGED <<adminVars, config, actionVars, paramVars, councilVars, delegationVars, upgrade, now>>
    BY <1>3 DEF SubmitCommunityProposal
  <2> HIDE DEF c
  <2>3. CommunityOk'
    BY <1>2, <2>1, <2>2, AppendType DEF CommunityOk
  <2>4. PowersKept
    BY <2>2 DEF PowersKept, adminVars
  <2>5. Quiet /\ Unopposed'
    BY <2>2, <2>4, ListsKept DEF paramVars, councilVars, actionVars
  <2>6. QED
    BY <2>2, <2>3, <2>5, AdminKept, ProposalsKept, ParamsKept, CouncilKept, DelegationKept, SignersKept,
       TypePartsNext DEF Inv, actionVars
<1>4. ASSUME NEW id \in DOMAIN community, SponsorCommunityProposal(a, id) PROVE Inv' /\ Quiet
  <2> DEFINE c == [community[id] EXCEPT !.open = FALSE]
             p == NewProposal(community[id].action, a, community[id].submitter)
  <2>1. c \in CommunityRecord
    BY CommunityTypes DEF CommunityRecord, Inv
  <2>2. p \in ProposalRecord
    BY CommunityTypes, NewProposalType DEF Inv
  <2>3. /\ community' = [community EXCEPT ![id] = c] /\ proposals' = Append(proposals, p)
        /\ UNCHANGED <<adminVars, config, pendingRotation, disputes, ruling, paramVars,
                       lastSubmission, councilVars, delegationVars, upgrade, now>>
    BY <1>4 DEF SponsorCommunityProposal
  <2> HIDE DEF c, p
  <2>4. CommunityOk'
    BY <1>2, <2>1, <2>3, ChangeType DEF CommunityOk
  <2>5. ProposalsOk' /\ FinalProposals /\ NoneExecuted
    BY <1>2, <2>2, <2>3, ProposalsGrow
  <2>6. PowersKept
    BY <2>3 DEF PowersKept, adminVars
  <2>7. FinalParams /\ FinalElections /\ FinalRecoveries /\ Unopposed'
    BY <2>3 DEF paramVars, councilVars, FinalParams, FinalElections, FinalRecoveries, Inv, Unopposed
  <2>8. TypeOK'
    BY <2>3, <2>4, <2>5, AdminKept, ParamsKept, CouncilKept, DelegationKept, SignersKept, TypePartsNext
       DEF Inv
  <2>9. QED
    BY <2>5, <2>6, <2>7, <2>8 DEF Inv, Quiet
<1>5. QED
  BY <1>1, <1>3, <1>4

LEMMA DelegatingStep == ASSUME Inv, Delegating PROVE Inv' /\ Quiet
<1>1. PICK s \in Address : RevokeDelegation(s) \/ \E d \in Address : DelegateVote(s, d)
  BY DEF Delegating
<1>2. UNCHANGED <<adminVars, config, actionVars, paramVars, communityVars, councilVars, upgrade, now>>
  BY <1>1 DEF RevokeDelegation, DelegateVote
<1>3. /\ delegatedTo \in [Address -> Address \union {Nobody}]
      /\ delegators \in [Address -> SUBSET Address]
  BY DEF Inv, TypeOK, DelegationOk
<1>4. DelegationOk'
  <2>1. ASSUME RevokeDelegation(s) PROVE DelegationOk'
    BY <1>3, <2>1 DEF RevokeDelegation, DelegationOk
  <2>2. ASSUME NEW d \in Address, DelegateVote(s, d) PROVE DelegationOk'
    <3>1. delegatedTo' \in [Address -> Address \union {Nobody}]
      BY <1>3, <2>2 DEF DelegateVote
    <3>2. delegators' \in [Address -> SUBSET Address]
      BY <1>3, <2>2 DEF DelegateVote
    <3>3. QED
      BY <3>1, <3>2 DEF DelegationOk
  <2>3. QED
    BY <1>1, <2>1, <2>2
<1>5. PowersKept
  BY <1>2 DEF PowersKept, adminVars
<1>6. Quiet /\ Unopposed'
  BY <1>2, <1>5, ListsKept DEF paramVars, councilVars, actionVars
<1>7. QED
  BY <1>2, <1>4, <1>6, AdminKept, ProposalsKept, ParamsKept, CommunityKept, CouncilKept, SignersKept,
     TypePartsNext DEF Inv, actionVars

(* Upgrades and the clock.                                                 *)
LEMMA ClockStep == ASSUME Inv, Upgrading \/ Tick PROVE Inv' /\ Quiet
<1>1. UNCHANGED <<adminVars, config, actionVars, paramVars, communityVars, councilVars, delegationVars>>
  BY DEF Upgrading, ProposeUpgrade, ExecuteUpgrade, Tick
<1>2. AdminOk'
  <2>1. upgrade' \in {upgrade, now, -1} /\ (now' = now \/ (now' = now + 1 /\ now < MaxTime))
    BY DEF Upgrading, ProposeUpgrade, ExecuteUpgrade, Tick
  <2>2. AdminOk
    BY DEF Inv, TypeOK
  <2>3. upgrade' \in Time \union {-1} /\ now' \in Time
    BY <2>1, <2>2, BoundsOk DEF AdminOk, Time
  <2>4. QED
    BY <1>1, <2>2, <2>3 DEF AdminOk, adminVars, actionVars
<1>3. PowersKept
  BY <1>1 DEF PowersKept, adminVars
<1>4. Quiet /\ Unopposed'
  BY <1>1, <1>3, ListsKept DEF paramVars, councilVars, actionVars
<1>5. QED
  BY <1>1, <1>2, <1>4, ProposalsKept, ParamsKept, CommunityKept, CouncilKept, DelegationKept, SignersKept,
     TypePartsNext DEF Inv, actionVars

-------------------------------------------------------------------------------
(* Changes of the signer set.                                              *)

(* A step that touches the council's keys and the signer set only.         *)
LEMMA OnlyCouncil ==
  ASSUME Inv, CouncilOk', SignersOk', FinalElections, FinalRecoveries, Unopposed',
         UNCHANGED <<adminVars, actionVars, paramVars, communityVars, delegationVars, upgrade, now>>
  PROVE  Inv' /\ Quiet
<1>1. FinalProposals /\ FinalParams /\ NoneExecuted
  BY DEF actionVars, paramVars, FinalProposals, FinalParams, NoneExecuted
<1>2. PowersKept
  BY DEF adminVars, PowersKept
<1>3. TypeOK'
  BY AdminKept, ProposalsKept, ParamsKept, CommunityKept, DelegationKept, TypePartsNext
     DEF Inv, actionVars
<1>4. QED
  BY <1>1, <1>2, <1>3 DEF Inv, Quiet

LEMMA CouncilTypes ==
  ASSUME Inv
  PROVE  /\ recoveries \in Seq(RecoveryRecord) /\ elections \in Seq(ElectionRecord)
         /\ seatElection \in [Address -> Nat] /\ termStart \in [Address -> Nat]
         /\ terms \in [length : Nat, grace : Nat] /\ now \in Time /\ now \in Nat
BY BoundsOk DEF Inv, TypeOK, CouncilOk, AdminOk, Time

LEMMA RecoveryTypes ==
  ASSUME Inv, NEW id \in DOMAIN recoveries
  PROVE  /\ recoveries[id] \in RecoveryRecord /\ ConfigOk(recoveries[id].config)
         /\ recoveries[id].executed => recoveries[id].objections = {}
BY CouncilTypes DEF Inv, TypeOK, CouncilOk, Unopposed

(* The recoveries after one changed: still open before, and with no        *)
(* objection if it is executed now.                                        *)
LEMMA RecoveryChanges ==
  ASSUME Inv, NEW id \in DOMAIN recoveries, NEW r \in RecoveryRecord,
         ~recoveries[id].executed, r.config = recoveries[id].config,
         recoveries[id].objections # {} => ~r.executed,
         r.objections # {} => ~r.executed,
         recoveries' = [recoveries EXCEPT ![id] = r],
         UNCHANGED <<elections, seatElection, termStart, terms>>
  PROVE  CouncilOk' /\ FinalElections /\ FinalRecoveries /\ Unopposed'
<1>1. /\ recoveries' \in Seq(RecoveryRecord) /\ DOMAIN recoveries' = DOMAIN recoveries
      /\ recoveries'[id] = r
      /\ \A o \in DOMAIN recoveries : o # id => recoveries'[o] = recoveries[o]
  BY CouncilTypes, ChangeType
<1>2. \A o \in DOMAIN recoveries' : ConfigOk(recoveries'[o].config)
  BY <1>1, RecoveryTypes
<1>3. CouncilOk'
  BY <1>1, <1>2, CouncilTypes DEF CouncilOk
<1>4. FinalElections
  BY DEF FinalElections
<1>5. FinalRecoveries /\ Unopposed'
  BY <1>1, RecoveryTypes DEF FinalRecoveries, Unopposed
<1>6. QED
  BY <1>3, <1>4, <1>5

LEMMA RecoveringStep ==
  ASSUME Inv, NEW s \in Address,
         \/ \E c \in Configs : ProposeSignerRecovery(s, c)
         \/ \E id \in DOMAIN recoveries : ObjectSignerRecovery(s, id) \/ ExecuteSignerRecovery(s, id)
  PROVE  Inv' /\ Quiet
<1>1. ASSUME NEW c \in Configs, ProposeSignerRecovery(s, c) PROVE Inv' /\ Quiet
  <2> DEFINE r == [config |-> c, created |-> now, objections |-> {}, executed |-> FALSE]
  <2>1. ConfigOk(c)
    BY <1>1, ConfigsOk DEF ProposeSignerRecovery, ConfigOk
  <2>2. r \in RecoveryRecord /\ ConfigOk(r.config) /\ r.objections = {}
    BY <2>1, CouncilTypes DEF RecoveryRecord, ConfigOk
  <2>3. /\ recoveries' = Append(recoveries, r)
        /\ UNCHANGED <<adminVars, config, actionVars, paramVars, communityVars, elections,
                       seatElection, termStart, terms, delegationVars, upgrade, now>>
    BY <1>1 DEF ProposeSignerRecovery
  <2> HIDE DEF r
  <2>4. /\ recoveries' \in Seq(RecoveryRecord)
        /\ \A o \in DOMAIN recoveries : recoveries'[o] = recoveries[o]
        /\ recoveries'[Len(recoveries) + 1] = r
        /\ DOMAIN recoveries' = DOMAIN recoveries \union {Len(recoveries) + 1}
    BY <2>2, <2>3, CouncilTypes, AppendType
  <2>5. \A o \in DOMAIN recoveries' : /\ ConfigOk(recoveries'[o].config)
                                      /\ recoveries'[o].executed => recoveries'[o].objections = {}
    <3>1. \A o \in DOMAIN recoveries : /\ ConfigOk(recoveries'[o].config)
                                       /\ recoveries'[o].executed => recoveries'[o].objections = {}
      BY <2>4, RecoveryTypes
    <3>2. /\ ConfigOk(recoveries'[Len(recoveries) + 1].config)
          /\ recoveries'[Len(recoveries) + 1].objections = {}
      BY <2>2, <2>4
    <3>3. QED
      BY <2>4, <3>1, <3>2
  <2>6. CouncilOk'
    BY <2>3, <2>4, <2>5, CouncilTypes DEF CouncilOk
  <2>7. FinalElections /\ FinalRecoveries /\ Unopposed'
    BY <2>3, <2>4, <2>5, RecoveryTypes DEF FinalElections, FinalRecoveries, Unopposed
  <2>8. SignersOk'
    BY <2>3, SignersKept DEF Inv
  <2>9. QED
    BY <2>3, <2>6, <2>7, <2>8, OnlyCouncil
<1>2. ASSUME NEW id \in DOMAIN recoveries, ObjectSignerRecovery(s, id) PROVE Inv' /\ Quiet
  <2> DEFINE r == [recoveries[id] EXCEPT !.objections = @ \union {s}]
  <2>1. recoveries[id] \in RecoveryRecord
    BY RecoveryTypes
  <2>2. r \in RecoveryRecord /\ r.config = recoveries[id].config /\ r.executed = recoveries[id].executed
    BY <2>1 DEF RecoveryRecord
  <2>3. /\ recoveries' = [recoveries EXCEPT ![id] = r] /\ ~recoveries[id].executed
        /\ UNCHANGED <<adminVars, config, actionVars, paramVars, communityVars, elections,
                       seatElection, termStart, terms, delegationVars, upgrade, now>>
    BY <1>2 DEF ObjectSignerRecovery
  <2> HIDE DEF r
  <2>4. CouncilOk' /\ FinalElections /\ FinalRecoveries /\ Unopposed'
    BY <2>2, <2>3, RecoveryChanges
  <2>5. SignersOk'
    BY <2>3, SignersKept DEF Inv
  <2>6. QED
    BY <2>3, <2>4, <2>5, OnlyCouncil
<1>3. ASSUME NEW id \in DOMAIN recoveries, ExecuteSignerRecovery(s, id) PROVE Inv' /\ Quiet
  <2> DEFINE r == [recoveries[id] EXCEPT !.executed = TRUE]
  <2>1. recoveries[id] \in RecoveryRecord /\ recoveries[id].objections = {}
    BY <1>3, RecoveryTypes DEF ExecuteSignerRecovery
  <2>2. r \in RecoveryRecord /\ r.config = recoveries[id].config /\ r.objections = {}
    BY <2>1 DEF RecoveryRecord
  <2>3. /\ recoveries' = [recoveries EXCEPT ![id] = r] /\ ~recoveries[id].executed
        /\ config' = recoveries[id].config
        /\ UNCHANGED <<adminVars, actionVars, paramVars, communityVars, elections,
                       seatElection, termStart, terms, delegationVars, upgrade, now>>
    BY <1>3 DEF ExecuteSignerRecovery
  <2> HIDE DEF r
  <2>4. CouncilOk' /\ FinalElections /\ FinalRecoveries /\ Unopposed'
    BY <2>1, <2>2, <2>3, RecoveryChanges
  <2>5. SignersOk'
    BY <2>3, RecoveryTypes DEF SignersOk, ConfigOk
  <2>6. QED
    BY <2>3, <2>4, <2>5, OnlyCouncil
<1>4. QED
  BY <1>1, <1>2, <1>3

LEMMA ElectionTypes ==
  ASSUME Inv, NEW id \in DOMAIN elections
  PROVE  /\ elections[id] \in ElectionRecord
         /\ elections[id].seat \in Address /\ elections[id].candidate \in Address
<1>1. elections[id] \in ElectionRecord
  BY CouncilTypes
<1>2. QED
  BY <1>1 DEF ElectionRecord

(* The elections after an open one changed.                                *)
LEMMA ElectionChanges ==
  ASSUME Inv, NEW id \in DOMAIN elections, NEW e \in ElectionRecord, ~elections[id].concluded,
         elections' = [o \in DOMAIN elections |-> elections'[o]], elections'[id] = e,
         \A o \in DOMAIN elections : o # id => elections'[o] = elections[o]
  PROVE  elections' \in Seq(ElectionRecord) /\ FinalElections
<1>1. elections \in Seq(ElectionRecord)
  BY CouncilTypes
<1>2. \A o \in DOMAIN elections : elections'[o] \in ElectionRecord
  BY <1>1
<1>3. DOMAIN elections = 1..Len(elections) /\ Len(elections) \in Nat
  BY <1>1
<1>4. elections' \in [1..Len(elections) -> ElectionRecord]
  BY <1>2, <1>3
<1>5. elections' \in Seq(ElectionRecord)
  BY <1>3, <1>4
<1>6. QED
  BY <1>5 DEF FinalElections

LEMMA SeatedType ==
  ASSUME NEW signers \in Seq(Address), NEW seat, NEW candidate \in Address
  PROVE  Seated(signers, seat, candidate) \in Seq(Address)
         /\ Len(Seated(signers, seat, candidate)) = Len(signers)
<1>1. DOMAIN signers = 1..Len(signers) /\ Len(signers) \in Nat
  OBVIOUS
<1>2. Seated(signers, seat, candidate) \in [1..Len(signers) -> Address]
  BY <1>1 DEF Seated
<1>3. QED
  BY <1>1, <1>2

LEMMA ElectingStep ==
  ASSUME Inv,
         \/ \E s \in Address :
              \/ \E seat, c \in Address : InitiateCouncilRotation(s, seat, c)
              \/ \E id \in DOMAIN elections, yes \in BOOLEAN : VoteCouncilRotation(s, id, yes)
         \/ \E id \in DOMAIN elections : ConcludeCouncilRotation(id)
         \/ \E s \in Address, t \in Terms : ConfigureCouncilTerms(s, t)
  PROVE  Inv' /\ Quiet
<1>1. UNCHANGED <<adminVars, actionVars, paramVars, communityVars, recoveries, delegationVars, upgrade, now>>
  BY DEF InitiateCouncilRotation, VoteCouncilRotation, ConcludeCouncilRotation, ConfigureCouncilTerms
<1>2. FinalRecoveries /\ Unopposed' /\ \A id \in DOMAIN recoveries' : ConfigOk(recoveries'[id].config)
  BY <1>1, RecoveryTypes DEF FinalRecoveries, Unopposed
<1>3. ASSUME elections' \in Seq(ElectionRecord), seatElection' \in [Address -> Nat],
             termStart' \in [Address -> Nat], terms' \in [length : Nat, grace : Nat],
             SignersOk', FinalElections
      PROVE  Inv' /\ Quiet
  <2>1. CouncilOk'
    BY <1>1, <1>2, <1>3, CouncilTypes DEF CouncilOk
  <2>2. QED
    BY <1>1, <1>2, <1>3, <2>1, OnlyCouncil
<1>4. ASSUME NEW s \in Address, NEW seat \in Address, NEW c \in Address,
             InitiateCouncilRotation(s, seat, c)
      PROVE  Inv' /\ Quiet
  <2> DEFINE e == [seat |-> seat, candidate |-> c, for |-> 1, against |-> 0, voters |-> {s},
                   concluded |-> FALSE, confirmed |-> FALSE]
  <2>1. e \in ElectionRecord
    BY DEF ElectionRecord
  <2>2. /\ elections' = Append(elections, e) /\ UNCHANGED <<config, termStart, terms>>
        /\ seatElection' = [seatElection EXCEPT ![seat] = Len(elections) + 1]
    BY <1>4 DEF InitiateCouncilRotation
  <2> HIDE DEF e
  <2>3. elections' \in Seq(ElectionRecord) /\ \A o \in DOMAIN elections : elections'[o] = elections[o]
    BY <2>1, <2>2, CouncilTypes, AppendType
  <2>4. FinalElections
    BY <2>3 DEF FinalElections
  <2>5. Len(elections) + 1 \in Nat
    BY CouncilTypes
  <2>6. seatElection' \in [Address -> Nat]
    BY <2>2, <2>5, CouncilTypes
  <2>7. SignersOk'
    BY <2>2, SignersKept DEF Inv
  <2>8. QED
    BY <1>3, <2>2, <2>3, <2>4, <2>6, <2>7, CouncilTypes
<1>5. ASSUME NEW s \in Address, NEW id \in DOMAIN elections, NEW yes \in BOOLEAN,
             VoteCouncilRotation(s, id, yes)
      PROVE  Inv' /\ Quiet
  <2> DEFINE e == elections[id]
             for2 == IF yes THEN e.for + 1 ELSE e.for
             against2 == IF yes THEN e.against ELSE e.against + 1
             r == [seat |-> e.seat, candidate |-> e.candidate, for |-> for2, against |-> against2,
                   voters |-> e.voters \union {s}, concluded |-> e.concluded, confirmed |-> e.confirmed]
  <2>1. e \in ElectionRecord
    BY ElectionTypes
  <2>2. e.for \in Nat /\ e.against \in Nat
    BY <2>1 DEF ElectionRecord
  <2>3. for2 \in Nat /\ against2 \in Nat
    BY <2>2
  <2>4. /\ elections' = [o \in DOMAIN elections |-> elections'[o]]
        /\ \A o \in DOMAIN elections : o # id => elections'[o] = elections[o]
    BY <1>5, CouncilTypes DEF VoteCouncilRotation
  <2>5. elections'[id] = [elections[id] EXCEPT !.voters = @ \union {s}, !.for = for2, !.against = against2]
    BY <1>5, CouncilTypes DEF VoteCouncilRotation
  <2> HIDE DEF for2, against2
  <2>6. elections'[id] = r
    BY <2>1, <2>5 DEF ElectionRecord
  <2>7. r \in ElectionRecord
    BY <2>1, <2>3 DEF ElectionRecord
  <2>8. ~elections[id].concluded /\ UNCHANGED <<config, seatElection, termStart, terms>>
    BY <1>5 DEF VoteCouncilRotation
  <2> HIDE DEF r
  <2>9. elections' \in Seq(ElectionRecord) /\ FinalElections
    BY <2>4, <2>6, <2>7, <2>8, ElectionChanges
  <2>10. SignersOk'
    BY <2>8, SignersKept DEF Inv
  <2>11. QED
    BY <1>3, <2>8, <2>9, <2>10, CouncilTypes
<1>6. ASSUME NEW id \in DOMAIN elections, ConcludeCouncilRotation(id) PROVE Inv' /\ Quiet
  <2> DEFINE e == elections[id]
             yes == e.for >= config.threshold
             reseated == Seated(config.signers, e.seat, e.candidate)
             started == IF termStart[e.seat] # 0 THEN termStart[e.seat] ELSE now
             r == [seat |-> e.seat, candidate |-> e.candidate, for |-> e.for, against |-> e.against,
                   voters |-> e.voters, concluded |-> TRUE, confirmed |-> yes]
  <2>1. e \in ElectionRecord /\ e.seat \in Address /\ e.candidate \in Address
    BY ElectionTypes
  <2>2. /\ Configured /\ ~elections[id].concluded /\ UNCHANGED terms
        /\ yes => config.threshold >= 2 /\ Len(reseated) >= config.threshold
        /\ elections' = [elections EXCEPT ![id].concluded = TRUE, ![id].confirmed = yes]
        /\ config' = IF yes THEN [config EXCEPT !.signers = reseated] ELSE config
        /\ termStart' = IF yes THEN [[termStart EXCEPT ![e.candidate] = now] EXCEPT ![e.seat] = 0]
                               ELSE [termStart EXCEPT ![e.seat] = started + terms.grace]
        /\ seatElection' = [seatElection EXCEPT ![e.seat] = 0]
    BY <1>6 DEF ConcludeCouncilRotation
  <2>3. /\ elections' = [o \in DOMAIN elections |-> elections'[o]]
        /\ \A o \in DOMAIN elections : o # id => elections'[o] = elections[o]
    BY <2>2, CouncilTypes
  <2>4. elections'[id] = [elections[id] EXCEPT !.concluded = TRUE, !.confirmed = yes]
    BY <2>2, CouncilTypes
  <2> HIDE DEF yes
  <2>5. elections'[id] = r
    BY <2>1, <2>4 DEF ElectionRecord
  <2>6. yes \in BOOLEAN
    BY DEF yes
  <2>7. r \in ElectionRecord
    BY <2>1, <2>6 DEF ElectionRecord
  <2> HIDE DEF r
  <2>8. elections' \in Seq(ElectionRecord) /\ FinalElections
    BY <2>2, <2>3, <2>5, <2>7, ElectionChanges
  <2>9. started \in Nat /\ terms.grace \in Nat
    BY <2>1, CouncilTypes
  <2>10. started + terms.grace \in Nat
    <3> HIDE DEF started
    <3>1. QED
      BY <2>9
  <2> HIDE DEF started, e
  <2>11. termStart' \in [Address -> Nat] /\ seatElection' \in [Address -> Nat]
    <3>1. termStart \in [Address -> Nat] /\ seatElection \in [Address -> Nat] /\ now \in Nat
      BY CouncilTypes
    <3>2. QED
      BY <2>1, <2>2, <2>10, <3>1
  <2>12. ConfigOk(config)
    BY <2>2 DEF Inv, TypeOK
  <2>13. reseated \in Seq(Address) /\ Len(reseated) = Len(config.signers)
    BY <2>1, <2>12, SeatedType DEF ConfigOk, ConfigRecord
  <2> HIDE DEF reseated
  <2>14. [config EXCEPT !.signers = reseated] \in ConfigRecord
    BY <2>12, <2>13 DEF ConfigOk, ConfigRecord
  <2>15. ConfigOk([config EXCEPT !.signers = reseated])
    BY <2>12, <2>13, <2>14 DEF ConfigOk, ConfigRecord
  <2>16. SignersOk'
    BY <2>2, <2>12, <2>15 DEF SignersOk, ConfigOk
  <2>17. QED
    BY <1>3, <2>2, <2>8, <2>11, <2>16, CouncilTypes
<1>7. ASSUME NEW s \in Address, NEW t \in Terms, ConfigureCouncilTerms(s, t) PROVE Inv' /\ Quiet
  <2>1. terms' \in [length : Nat, grace : Nat]
    BY <1>7, TermsOk DEF ConfigureCouncilTerms
  <2>2. UNCHANGED <<config, elections, seatElection, termStart>>
    BY <1>7 DEF ConfigureCouncilTerms
  <2>3. SignersOk'
    BY <2>2, SignersKept DEF Inv
  <2>4. FinalElections
    BY <2>2 DEF FinalElections
  <2>5. QED
    BY <1>3, <2>1, <2>2, <2>3, <2>4, CouncilTypes
<1>8. QED
  BY <1>4, <1>5, <1>6, <1>7

-------------------------------------------------------------------------------
LEMMA InitInv == Init => Inv
<1> SUFFICES ASSUME Init PROVE Inv
  OBVIOUS
<1>1. AdminOk
  <2>1. /\ admin = Deployer /\ role = [a \in Address |-> IF a = Deployer THEN "Admin" ELSE "None"]
        /\ members = [r \in Grantable |-> {}] /\ paused = FALSE /\ initiator = Nobody
        /\ disputes = FALSE /\ ruling = "none" /\ upgrade = -1 /\ now = 0
    BY DEF Init
  <2>2. role \in [Address -> Roles]
    BY <2>1 DEF Roles
  <2>3. members \in [Grantable -> SUBSET Address]
    BY <2>1
  <2>4. 0 \in Time
    BY BoundsOk DEF Time
  <2>5. QED
    BY <2>1, <2>2, <2>3, <2>4, AddressesOk DEF AdminOk
<1>2. ProposalsOk /\ ParamsOk
  <2>1. proposals = <<>> /\ pendingRotation = 0 /\ params = <<>> /\ parameter = [k \in Parameters |-> -1]
    BY DEF Init
  <2>2. QED
    BY <2>1 DEF ProposalsOk, ParamsOk
<1>3. CouncilOk /\ Unopposed
  <2>1. /\ recoveries = <<>> /\ elections = <<>> /\ seatElection = [a \in Address |-> 0]
        /\ termStart = [a \in Address |-> 0] /\ terms = [length |-> 0, grace |-> 259200]
    BY DEF Init
  <2>2. terms \in [length : Nat, grace : Nat]
    BY <2>1
  <2>3. /\ recoveries \in Seq(RecoveryRecord) /\ elections \in Seq(ElectionRecord)
        /\ DOMAIN recoveries = {}
    BY <2>1
  <2>4. QED
    BY <2>1, <2>2, <2>3 DEF CouncilOk, Unopposed
<1>4. CommunityOk
  <2>1. community = <<>> /\ lastSubmission = [a \in Address |-> 0]
    BY DEF Init
  <2>2. 0 \in Time
    BY BoundsOk DEF Time
  <2>3. QED
    BY <2>1, <2>2 DEF CommunityOk
<1>5. DelegationOk /\ SignersOk
  <2>1. /\ config = NoConfig
        /\ delegatedTo = [a \in Address |-> Nobody] /\ delegators = [a \in Address |-> {}]
    BY DEF Init
  <2>2. QED
    BY <2>1 DEF DelegationOk, SignersOk, Configured
<1>6. QED
  BY <1>1, <1>2, <1>3, <1>4, <1>5, TypeParts DEF Inv

LEMMA NextStep == Inv /\ [Next]_vars => Inv' /\ (Quiet \/ Executing)
<1> SUFFICES ASSUME Inv, [Next]_vars PROVE Inv' /\ (Quiet \/ Executing)
  OBVIOUS
<1>1. CASE Reseating
  BY <1>1, RecoveringStep, ElectingStep DEF Reseating
<1>2. CASE UNCHANGED vars
  <2>1. UNCHANGED <<adminVars, config, actionVars, paramVars, communityVars, councilVars,
                    delegationVars, upgrade, now>>
    BY <1>2 DEF vars
  <2>2. PowersKept
    BY <2>1 DEF PowersKept, adminVars
  <2>3. Quiet /\ Unopposed'
    BY <2>1, <2>2, ListsKept DEF paramVars, councilVars, actionVars
  <2>4. QED
    BY <2>1, <2>3, AdminKept, ProposalsKept, ParamsKept, CommunityKept, CouncilKept, DelegationKept,
       SignersKept, TypePartsNext DEF Inv, actionVars
<1>3. QED
  BY <1>1, <1>2, AloneStep, ProposingStep, ParametrizingStep, SponsoringStep, DelegatingStep,
     ClockStep DEF Next

LEMMA InvAlways == Spec => []Inv
BY InitInv, NextStep, PTL DEF Spec

(* Every key holds a value of its type, and the signer list is never       *)
(* shorter than the threshold: no election, recovery or configuration can  *)
(* leave a multisig that nobody can satisfy (configure_multisig,           *)
(* conclude_council_rotation, execute_signer_recovery).                    *)
THEOREM TypeCorrect == Spec => []TypeOK
<1>1. Inv => TypeOK
  BY DEF Inv
<1>2. QED
  BY <1>1, InvAlways, PTL

-------------------------------------------------------------------------------
(* What PrivilegeNeedsQuorum says of a step.                               *)
QuorumStep ==
  Configured /\ (admin' # admin \/ role' # role \/ (paused /\ ~paused')) =>
    \E id \in DOMAIN proposals :
      /\ ~proposals[id].executed /\ proposals'[id].executed
      /\ Cardinality(proposals[id].approvals \intersect Signer) >= config.threshold

LEMMA QuorumStepTaken == Inv /\ [Next]_vars => [QuorumStep]_vars
<1> SUFFICES ASSUME Inv, [Next]_vars PROVE QuorumStep
  OBVIOUS
<1>1. CASE Quiet
  BY <1>1 DEF Quiet, PowersKept, QuorumStep
<1>2. CASE Executing
  <2>1. PICK ids \in SUBSET DOMAIN proposals : ids # {} /\ Executes(ids)
    BY <1>2 DEF Executing
  <2>2. PICK id \in ids : TRUE
    BY <2>1
  <2>3. /\ id \in DOMAIN proposals /\ Live(proposals[id]) /\ EnoughApprovals(id)
        /\ proposals'[id].executed
    BY <2>1, <2>2 DEF Executes
  <2>4. QED
    BY <2>3 DEF QuorumStep, Live, Pending, EnoughApprovals
<1>3. QED
  BY <1>1, <1>2, NextStep

(* Once a multisig governs, the admin, the roles and the pause change only *)
(* in a call that executes a proposal with a threshold of approvals of the *)
(* signers of that moment, for every signer set, every reseating of it and *)
(* every batch of two (execute_action, execute_batch).                     *)
THEOREM QuorumAlwaysAsked == Spec => PrivilegeNeedsQuorum
<1>1. [][QuorumStep]_vars => PrivilegeNeedsQuorum
  BY PTL DEF QuorumStep, PrivilegeNeedsQuorum
<1>2. QED
  BY <1>1, InvAlways, QuorumStepTaken, PTL DEF Spec

FinalStep ==
  /\ \A id \in DOMAIN proposals : Closed(proposals[id]) => proposals'[id] = proposals[id]
  /\ \A id \in DOMAIN params : Closed(params[id]) => params'[id] = params[id]
  /\ \A id \in DOMAIN elections : elections[id].concluded => elections'[id] = elections[id]
  /\ \A id \in DOMAIN recoveries :
       /\ recoveries[id].executed => recoveries'[id] = recoveries[id]
       /\ recoveries[id].objections # {} => ~recoveries'[id].executed

LEMMA FinalStepTaken == Inv /\ [Next]_vars => [FinalStep]_vars
BY NextStep DEF Quiet, Executing, FinalStep, FinalProposals, FinalParams, FinalElections, FinalRecoveries

(* What is executed, cancelled or concluded stays as it is, and a recovery *)
(* one signer objected to is never executed, also after that signer lost   *)
(* the seat.                                                               *)
THEOREM ResolvedStaysResolved == Spec => ResolvedIsFinal
<1>1. [][FinalStep]_vars => ResolvedIsFinal
  BY PTL DEF FinalStep, ResolvedIsFinal
<1>2. QED
  BY <1>1, InvAlways, FinalStepTaken, PTL DEF Spec

RotationStep ==
  \A id \in DOMAIN proposals :
    IsRotation(proposals[id]) /\ ~proposals[id].executed /\ proposals'[id].executed =>
      \A o \in DOMAIN proposals : Live(proposals[o]) => proposals'[o].executed

LEMMA RotationStepTaken == Inv /\ [Next]_vars => [RotationStep]_vars
<1> SUFFICES ASSUME Inv, [Next]_vars PROVE RotationStep
  OBVIOUS
<1>1. CASE Quiet
  BY <1>1 DEF Quiet, NoneExecuted, RotationStep
<1>2. CASE Executing
  <2>1. PICK ids \in SUBSET DOMAIN proposals : Executes(ids)
    BY <1>2 DEF Executing
  <2>2. SUFFICES ASSUME NEW id \in DOMAIN proposals, IsRotation(proposals[id]),
                        ~proposals[id].executed, proposals'[id].executed,
                        NEW o \in DOMAIN proposals, Live(proposals[o])
                 PROVE  proposals'[o].executed
    BY DEF RotationStep
  <2>3. id \in ids
    BY <2>1, <2>2 DEF Executes
  <2>4. o \in ids
    BY <2>1, <2>2, <2>3 DEF Executes
  <2>5. QED
    BY <2>1, <2>4 DEF Executes
<1>3. QED
  BY <1>1, <1>2, NextStep

(* A rotation of the admin key is executed only when no other live         *)
(* proposal is left, the other one of its batch included                   *)
(* (require_no_other_active_proposals).                                    *)
THEOREM RotationNeverOvertakes == Spec => RotationOvertakesNothing
<1>1. [][RotationStep]_vars => RotationOvertakesNothing
  BY PTL DEF RotationStep, RotationOvertakesNothing
<1>2. QED
  BY <1>1, InvAlways, RotationStepTaken, PTL DEF Spec

(***************************************************************************)
(* The smaller contracts around the pool.                                  *)
(***************************************************************************)

(* The sums of the two modules that keep one are the same.                 *)
LEMMA SameSumOfShares ==
  ASSUME NEW f, NEW S
  PROVE  Frac!SumOver(f, S) = SumOver(f, S) /\ Bundle!SumOver(f, S) = SumOver(f, S)
BY DEF SumOver, MapThenSumSet, MapThenFoldSet, Frac!SumOver, Frac!MapThenSumSet, Frac!MapThenFoldSet,
       Bundle!SumOver, Bundle!MapThenSumSet, Bundle!MapThenFoldSet

-----------------------------------------------------------------------------
(* fractionalizer and secondary_market on one pool.  Nothing is settled    *)
(* before the pool closed, and nothing of a settled wrap was paid before;  *)
(* while the pool is open a position may be wrapped or sold but not lost.  *)

WrapRecord == [total : Nat, outstanding : Nat, payout : Nat, settled : BOOLEAN]

PoolTypes ==
  /\ position \in [Frac!Account -> Nat]
  /\ repaid \in Nat \cup {-1}
  /\ cash \in [Frac!Account -> Nat]

FracTypes ==
  /\ wraps \in [Investor -> WrapRecord]
  /\ balances \in [Investor -> [Investor -> Nat]]
  /\ claimed \in [Investor -> SUBSET Investor]
  /\ halted \in BOOLEAN
  /\ booked \in [Investor -> Nat] /\ redeemed \in [Investor -> Nat]
  /\ wrappedOver \in SUBSET Investor

MarketTypes ==
  /\ listing \in [Investor -> Nat]
  /\ protocolFee \in 0 .. MaxFeeBps
  /\ marketPaused \in BOOLEAN

WrapOk(w, paidOut, due, closed) ==
  /\ w.total = 0 => w = Frac!NoWrap
  /\ w.outstanding <= w.total
  /\ w.settled => closed /\ paidOut + w.payout = due
  /\ ~w.settled => paidOut = 0

WrapsOk == \A i \in Investor : WrapOk(wraps[i], redeemed[i], booked[i], Frac!Closed)

SharesKept ==
  \A i \in Investor \ wrappedOver : SumOver(balances[i], Investor) = wraps[i].outstanding

PositionInv == PoolTypes /\ FracTypes /\ MarketTypes /\ WrapsOk /\ SharesKept

LEMMA Accounts ==
  /\ Investor \subseteq Frac!Account /\ Vault \in Frac!Account /\ Fees \in Frac!Account
  /\ Market!Account = Frac!Account /\ Market!Closed = Frac!Closed
BY DEF Frac!Account, Market!Account, Frac!Closed, Market!Closed

LEMMA BpsOf == \A x \in Nat : x \div 10000 \in Nat
  OBVIOUS

LEMMA NatProduct == \A x, y \in Nat : x * y \in Nat
  OBVIOUS

(* A part of the payout is never more than is left of it.                  *)
LEMMA PartOfPayout ==
  ASSUME NEW w \in WrapRecord, w.total > 0, w.outstanding <= w.total, NEW n \in Nat, n <= w.outstanding
  PROVE  Frac!Payout(w, n) \in 0 .. w.payout
<1>1. /\ w.payout \in Nat /\ w.total \in Nat /\ w.outstanding \in Nat
      /\ w.total - n \in Nat /\ w.total - n <= w.total /\ n <= w.total
  BY DEF WrapRecord
<1>2. (w.payout * (w.total - n)) \div w.total \in 0 .. w.payout /\ (w.payout * n) \div w.total \in 0 .. w.payout
  BY <1>1, ShareOfWhole
<1>3. QED
  BY <1>1, <1>2 DEF Frac!Payout

(* Only what an action changes of the record of one wrap matters.          *)
LEMMA OneWrap ==
  ASSUME NEW i \in Investor, PositionInv,
         Frac!Closed => Frac!Closed',
         \A x \in Investor \ {i} : wraps'[x] = wraps[x] /\ redeemed'[x] = redeemed[x] /\ booked'[x] = booked[x],
         WrapOk(wraps'[i], redeemed'[i], booked'[i], Frac!Closed')
  PROVE  WrapsOk'
<1> SUFFICES ASSUME NEW x \in Investor, x # i
             PROVE  WrapOk(wraps'[x], redeemed'[x], booked'[x], Frac!Closed')
  BY DEF WrapsOk
<1>1. WrapOk(wraps[x], redeemed[x], booked[x], Frac!Closed)
  BY DEF PositionInv, WrapsOk
<1>2. QED
  BY <1>1 DEF WrapOk

LEMMA SameShares ==
  ASSUME SharesKept, UNCHANGED balances, wrappedOver \subseteq wrappedOver',
         \A x \in Investor : wraps'[x].outstanding = wraps[x].outstanding
  PROVE  SharesKept'
BY DEF SharesKept

(* A transfer leaves every position a number, and changes nothing else.    *)
LEMMA PositionMoves ==
  ASSUME PoolTypes, NEW a \in Frac!Account, NEW b \in Frac!Account, Frac!TransferPosition(a, b)
  PROVE  position' \in [Frac!Account -> Nat] /\ position'[b] > 0 /\ ~Frac!Closed
BY DEF PoolTypes, Frac!TransferPosition

-----------------------------------------------------------------------------

(* The fractionalizer.                                                     *)

LEMMA WrapKeeps ==
  ASSUME PositionInv, NEW i \in Investor, NEW n \in ShareCounts, Frac!Wrap(i, n), UNCHANGED marketVars
  PROVE  PositionInv'
<1> DEFINE w == [total |-> n, outstanding |-> n, payout |-> 0, settled |-> FALSE]
           b == [balances[i] EXCEPT ![i] = n]
<1>1. /\ n \in Nat /\ n > 0
      /\ wraps' = [wraps EXCEPT ![i] = w] /\ balances' = [balances EXCEPT ![i][i] = n]
      /\ Frac!TransferPosition(i, Vault)
      /\ wrappedOver' = IF wraps[i] = Frac!NoWrap THEN wrappedOver ELSE wrappedOver \cup {i}
      /\ UNCHANGED <<claimed, halted, booked, redeemed, repaid, cash>>
  BY SharesOk DEF Frac!Wrap
<1>2. PoolTypes'
  BY <1>1, Accounts, PositionMoves DEF PositionInv, PoolTypes
<1>3. w \in WrapRecord
  BY <1>1 DEF WrapRecord
<1>4. /\ wraps[i] \in WrapRecord /\ balances[i] \in [Investor -> Nat] /\ b \in [Investor -> Nat]
      /\ balances' = [balances EXCEPT ![i] = b] /\ wraps'[i] = w /\ balances'[i] = b
  BY <1>1 DEF PositionInv, FracTypes
<1> HIDE DEF w
<1>5. FracTypes'
  BY <1>1, <1>3, <1>4 DEF PositionInv, FracTypes
<1>6. MarketTypes'
  BY DEF PositionInv, MarketTypes, marketVars
<1>7. ~Frac!Closed /\ (Frac!Closed' <=> Frac!Closed)
  BY <1>1, Accounts, PositionMoves DEF Frac!Closed, PositionInv
<1>8. WrapsOk'
  <2>1. ~wraps[i].settled /\ redeemed[i] = 0
    BY <1>4, <1>7 DEF PositionInv, WrapsOk, WrapOk, WrapRecord
  <2>2. WrapOk(w, redeemed'[i], booked'[i], Frac!Closed')
    BY <1>1, <2>1 DEF WrapOk, w
  <2>3. QED
    BY <1>1, <1>4, <1>7, <2>2, OneWrap DEF PositionInv, FracTypes
<1>9. SharesKept'
  <2>1. SUFFICES ASSUME NEW x \in Investor \ wrappedOver'
                 PROVE  SumOver(balances'[x], Investor) = wraps'[x].outstanding
    BY DEF SharesKept
  <2>2. x \notin wrappedOver /\ SumOver(balances[x], Investor) = wraps[x].outstanding
    BY <1>1, <2>1 DEF PositionInv, SharesKept
  <2>3. CASE x # i
    BY <1>1, <1>4, <2>2, <2>3 DEF PositionInv, FracTypes
  <2>4. CASE x = i
    <3>1. wraps[i] = Frac!NoWrap
      BY <1>1, <2>1, <2>4
    <3>2. SumOver(balances[i], Investor) = 0
      BY <2>2, <2>4, <3>1 DEF Frac!NoWrap
    <3>3. balances[i][i] = 0
      <4>1. balances[i][i] \in Nat /\ balances[i][i] <= SumOver(balances[i], Investor)
        BY <1>4, HoldersOk, SumNat
      <4>2. QED
        BY <3>2, <4>1
    <3>4. SumOver(b, Investor) = SumOver(balances[i], Investor) - balances[i][i] + b[i]
      BY <1>1, <1>4, HoldersOk, SumChange
    <3>5. b[i] = n
      BY <1>4
    <3>6. SumOver(b, Investor) = n
      BY <1>1, <3>2, <3>3, <3>4, <3>5
    <3>7. QED
      BY <1>4, <2>4, <3>6 DEF w
  <2>5. QED
    BY <2>3, <2>4
<1>10. QED
  BY <1>2, <1>5, <1>6, <1>8, <1>9 DEF PositionInv

LEMMA TransferSharesKeeps ==
  ASSUME PositionInv, NEW from \in Investor, NEW i \in Investor, NEW to \in Investor, NEW n \in ShareCounts,
         Frac!TransferShares(from, i, to, n), UNCHANGED marketVars
  PROVE  PositionInv'
<1> DEFINE b == balances[i]
           c == [b EXCEPT ![from] = b[from] - n]
           d == [c EXCEPT ![to] = c[to] + n]
<1>1. /\ n \in Nat /\ n > 0 /\ b[from] >= n
      /\ balances' = [balances EXCEPT ![i] = d]
      /\ UNCHANGED <<position, repaid, cash, wraps, claimed, halted, booked, redeemed, wrappedOver>>
  BY SharesOk DEF Frac!TransferShares, Frac!Moved, Frac!poolVars
<1>2. b \in [Investor -> Nat] /\ c \in [Investor -> Nat] /\ d \in [Investor -> Nat]
  <2>1. b \in [Investor -> Nat]
    BY DEF PositionInv, FracTypes
  <2>2. b[from] - n \in Nat
    BY <1>1, <2>1
  <2>3. c \in [Investor -> Nat]
    BY <2>1, <2>2
  <2>4. c[to] + n \in Nat
    BY <1>1, <2>3
  <2>5. QED
    BY <2>1, <2>3, <2>4
<1>3. PoolTypes' /\ MarketTypes' /\ WrapsOk'
  BY <1>1 DEF PositionInv, PoolTypes, MarketTypes, WrapsOk, marketVars, Frac!Closed
<1>4. SumOver(d, Investor) = SumOver(b, Investor)
  <2>1. SumOver(c, Investor) = SumOver(b, Investor) - b[from] + c[from] /\ c[from] = b[from] - n
    BY <1>1, <1>2, HoldersOk, SumChange
  <2>2. SumOver(d, Investor) = SumOver(c, Investor) - c[to] + d[to] /\ d[to] = c[to] + n
    BY <1>1, <1>2, HoldersOk, SumChange
  <2>3. SumOver(b, Investor) \in Int /\ b[from] \in Int /\ c[to] \in Int
    BY <1>2, HoldersOk, SumInt
  <2>4. QED
    BY <1>1, <2>1, <2>2, <2>3
<1> HIDE DEF d
<1>5. FracTypes'
  BY <1>1, <1>2 DEF PositionInv, FracTypes
<1>6. SharesKept'
  BY <1>1, <1>4 DEF PositionInv, FracTypes, SharesKept
<1>7. QED
  BY <1>3, <1>5, <1>6 DEF PositionInv

LEMMA SettleKeeps ==
  ASSUME PositionInv, NEW i \in Investor, Frac!Settle(i), UNCHANGED marketVars
  PROVE  PositionInv'
<1> DEFINE payout == (repaid * position[Vault]) \div 10000
           w == [wraps[i] EXCEPT !.payout = payout, !.settled = TRUE]
<1>1. /\ wraps[i] # Frac!NoWrap /\ ~wraps[i].settled /\ Frac!Closed
      /\ wraps' = [wraps EXCEPT ![i] = w] /\ booked' = [booked EXCEPT ![i] = payout]
      /\ UNCHANGED <<position, repaid, cash, balances, claimed, halted, redeemed, wrappedOver>>
  <2>1. wraps \in [Investor -> WrapRecord]
    BY DEF PositionInv, FracTypes
  <2>2. wraps' = [wraps EXCEPT ![i].payout = payout, ![i].settled = TRUE]
    BY DEF Frac!Settle
  <2>3. wraps' = [wraps EXCEPT ![i] = w]
    <3> HIDE DEF payout
    <3>1. QED
      BY <2>1, <2>2 DEF WrapRecord
  <2>4. wraps[i] # Frac!NoWrap /\ ~wraps[i].settled /\ Frac!Closed /\ booked' = [booked EXCEPT ![i] = payout]
    BY DEF Frac!Settle
  <2>5. UNCHANGED <<position, repaid, cash, balances, claimed, halted, redeemed, wrappedOver>>
    BY DEF Frac!Settle, Frac!poolVars
  <2>6. QED
    BY <2>3, <2>4, <2>5
<1>2. payout \in Nat
  <2>1. repaid \in Nat /\ position[Vault] \in Nat
    BY <1>1, Accounts DEF PositionInv, PoolTypes, Frac!Closed
  <2>2. repaid * position[Vault] \in Nat
    BY <2>1, NatProduct
  <2>3. QED
    BY <2>2, BpsOf
<1> HIDE DEF payout
<1>3. /\ wraps[i] \in WrapRecord /\ w \in WrapRecord /\ wraps'[i] = w
      /\ w.total = wraps[i].total /\ w.outstanding = wraps[i].outstanding /\ w.payout = payout /\ w.settled
  BY <1>1, <1>2 DEF PositionInv, FracTypes, WrapRecord
<1> HIDE DEF w
<1>4. PoolTypes' /\ MarketTypes' /\ FracTypes'
  BY <1>1, <1>2, <1>3 DEF PositionInv, PoolTypes, MarketTypes, FracTypes, marketVars
<1>5. WrapsOk'
  <2>1. WrapOk(wraps[i], redeemed[i], booked[i], Frac!Closed)
    BY DEF PositionInv, WrapsOk
  <2>2. wraps[i].total # 0 /\ redeemed[i] = 0 /\ booked'[i] = payout /\ redeemed'[i] = 0
    BY <1>1, <2>1 DEF WrapOk, PositionInv, FracTypes
  <2>3. WrapOk(w, redeemed'[i], booked'[i], Frac!Closed')
    BY <1>1, <1>2, <1>3, <2>1, <2>2 DEF WrapOk, Frac!Closed
  <2>4. QED
    BY <1>1, <1>3, <2>3, OneWrap DEF PositionInv, FracTypes, Frac!Closed
<1>6. SharesKept'
  BY <1>1, <1>3, SameShares DEF PositionInv, FracTypes
<1>7. QED
  BY <1>4, <1>5, <1>6 DEF PositionInv

LEMMA RedeemKeeps ==
  ASSUME PositionInv, NEW h \in Investor, NEW i \in Investor, Frac!Redeem(h, i), UNCHANGED marketVars
  PROVE  PositionInv' /\ cash'[h] >= cash[h] /\ \A a \in Investor \ {h} : cash'[a] = cash[a]
<1> DEFINE w == wraps[i]
           n == balances[i][h]
           pay == Frac!Payout(w, n)
           v == [w EXCEPT !.outstanding = w.outstanding - n, !.payout = w.payout - pay]
           b == [balances[i] EXCEPT ![h] = 0]
<1>1. /\ w # Frac!NoWrap /\ w.settled /\ n > 0 /\ n <= w.outstanding /\ cash[Vault] >= pay
      /\ claimed' = [claimed EXCEPT ![i] = claimed[i] \cup {h}]
      /\ balances' = [balances EXCEPT ![i][h] = 0]
      /\ wraps' = [wraps EXCEPT ![i] = v]
      /\ cash' = [cash EXCEPT ![Vault] = cash[Vault] - pay, ![h] = cash[h] + pay]
      /\ redeemed' = [redeemed EXCEPT ![i] = redeemed[i] + pay]
      /\ UNCHANGED <<position, repaid, halted, booked, wrappedOver>>
  <2>1. h # Vault /\ Vault \in Frac!Account /\ h \in Frac!Account
    BY Accounts, HoldersOk
  <2>2. QED
    BY <2>1 DEF Frac!Redeem, PositionInv, FracTypes, PoolTypes, WrapRecord
<1>2. /\ w \in WrapRecord /\ n \in Nat /\ balances[i] \in [Investor -> Nat] /\ WrapOk(w, redeemed[i], booked[i], Frac!Closed)
      /\ redeemed[i] \in Nat /\ booked[i] \in Nat
  BY DEF PositionInv, FracTypes, WrapsOk
<1>3. w.total > 0 /\ w.outstanding <= w.total /\ w.payout \in Nat /\ w.outstanding \in Nat /\ w.total \in Nat
  BY <1>1, <1>2 DEF WrapOk, WrapRecord
<1>4. pay \in 0 .. w.payout
  BY <1>1, <1>2, <1>3, PartOfPayout
<1> HIDE DEF pay
<1>5. /\ v \in WrapRecord /\ v.total = w.total /\ v.outstanding = w.outstanding - n /\ v.payout = w.payout - pay
      /\ v.settled = w.settled /\ wraps'[i] = v /\ redeemed'[i] = redeemed[i] + pay
  <2>1. w.outstanding - n \in Nat /\ w.payout - pay \in Nat
    BY <1>1, <1>2, <1>3, <1>4
  <2>2. QED
    BY <1>1, <1>2, <2>1 DEF WrapRecord, PositionInv, FracTypes
<1>6. b \in [Investor -> Nat] /\ balances' = [balances EXCEPT ![i] = b] /\ balances'[i] = b
  BY <1>1, <1>2 DEF PositionInv, FracTypes
<1>7. /\ cash' \in [Frac!Account -> Nat]
      /\ cash'[h] >= cash[h] /\ \A a \in Investor \ {h} : cash'[a] = cash[a]
  <2>1. h # Vault /\ Vault \in Frac!Account /\ h \in Frac!Account /\ Vault \notin Investor
    BY Accounts, HoldersOk
  <2>2. cash \in [Frac!Account -> Nat] /\ cash[Vault] - pay \in Nat /\ cash[h] + pay \in Nat /\ cash[h] + pay >= cash[h]
    BY <1>1, <1>3, <1>4, <2>1 DEF PositionInv, PoolTypes
  <2>3. QED
    BY <1>1, <2>1, <2>2, Accounts
<1>8. PoolTypes' /\ MarketTypes'
  BY <1>1, <1>7 DEF PositionInv, PoolTypes, MarketTypes, marketVars
<1> HIDE DEF v, b
<1>9. FracTypes'
  <2>1. redeemed[i] + pay \in Nat
    BY <1>2, <1>3, <1>4
  <2>2. QED
    BY <1>1, <1>5, <1>6, <2>1 DEF PositionInv, FracTypes
<1>10. WrapsOk'
  <2>1. WrapOk(v, redeemed'[i], booked'[i], Frac!Closed')
    BY <1>1, <1>2, <1>3, <1>4, <1>5 DEF WrapOk, Frac!Closed
  <2>2. QED
    BY <1>1, <1>5, <2>1, OneWrap DEF PositionInv, FracTypes, Frac!Closed
<1>11. SharesKept'
  <2>1. SUFFICES ASSUME NEW x \in Investor \ wrappedOver'
                 PROVE  SumOver(balances'[x], Investor) = wraps'[x].outstanding
    BY DEF SharesKept
  <2>2. x \notin wrappedOver /\ SumOver(balances[x], Investor) = wraps[x].outstanding
    BY <1>1, <2>1 DEF PositionInv, SharesKept
  <2>3. CASE x # i
    BY <1>1, <1>6, <2>2, <2>3 DEF PositionInv, FracTypes
  <2>4. CASE x = i
    <3>1. SumOver(b, Investor) = SumOver(balances[i], Investor) - balances[i][h] + b[h] /\ b[h] = 0
      BY <1>2, HoldersOk, SumChange DEF b
    <3>2. QED
      BY <1>2, <1>3, <1>5, <1>6, <2>2, <2>4, <3>1
  <2>5. QED
    BY <2>3, <2>4
<1>12. QED
  BY <1>7, <1>8, <1>9, <1>10, <1>11 DEF PositionInv

LEMMA UnwrapKeeps ==
  ASSUME PositionInv, NEW i \in Investor, Frac!Unwrap(i), UNCHANGED marketVars
  PROVE  PositionInv'
<1> DEFINE b == [balances[i] EXCEPT ![i] = 0]
<1>1. /\ balances[i][i] = wraps[i].total
      /\ wraps' = [wraps EXCEPT ![i] = Frac!NoWrap] /\ balances' = [balances EXCEPT ![i][i] = 0]
      /\ Frac!TransferPosition(Vault, i)
      /\ UNCHANGED <<claimed, halted, booked, redeemed, wrappedOver, repaid, cash>>
  BY DEF Frac!Unwrap
<1>2. PoolTypes'
  BY <1>1, Accounts, PositionMoves DEF PositionInv, PoolTypes
<1>3. Frac!NoWrap \in WrapRecord
  BY DEF WrapRecord, Frac!NoWrap
<1>4. /\ wraps[i] \in WrapRecord /\ balances[i] \in [Investor -> Nat] /\ b \in [Investor -> Nat]
      /\ balances' = [balances EXCEPT ![i] = b] /\ wraps'[i] = Frac!NoWrap /\ balances'[i] = b
  BY <1>1 DEF PositionInv, FracTypes
<1>5. FracTypes' /\ MarketTypes'
  BY <1>1, <1>3, <1>4 DEF PositionInv, FracTypes, MarketTypes, marketVars
<1>6. ~Frac!Closed /\ (Frac!Closed' <=> Frac!Closed)
  BY <1>1, Accounts, PositionMoves DEF Frac!Closed, PositionInv
<1>7. WrapsOk'
  <2>1. ~wraps[i].settled /\ redeemed[i] = 0
    BY <1>4, <1>6 DEF PositionInv, WrapsOk, WrapOk, WrapRecord
  <2>2. WrapOk(Frac!NoWrap, redeemed'[i], booked'[i], Frac!Closed')
    BY <1>1, <2>1 DEF WrapOk, Frac!NoWrap
  <2>3. QED
    BY <1>1, <1>4, <1>6, <2>2, OneWrap DEF PositionInv, FracTypes
<1>8. SharesKept'
  <2>1. SUFFICES ASSUME NEW x \in Investor \ wrappedOver'
                 PROVE  SumOver(balances'[x], Investor) = wraps'[x].outstanding
    BY DEF SharesKept
  <2>2. x \notin wrappedOver /\ SumOver(balances[x], Investor) = wraps[x].outstanding
    BY <1>1, <2>1 DEF PositionInv, SharesKept
  <2>3. CASE x # i
    BY <1>1, <1>4, <2>2, <2>3 DEF PositionInv, FracTypes
  <2>4. CASE x = i
    <3>1. SumOver(b, Investor) = SumOver(balances[i], Investor) - balances[i][i] + b[i] /\ b[i] = 0
      BY <1>4, HoldersOk, SumChange
    <3>2. balances[i][i] <= SumOver(balances[i], Investor) /\ balances[i][i] \in Nat
      BY <1>4, HoldersOk, SumNat
    <3>3. wraps[i].outstanding <= wraps[i].total /\ wraps[i].outstanding \in Nat
      BY <1>4 DEF PositionInv, WrapsOk, WrapOk, WrapRecord
    <3>4. SumOver(b, Investor) = 0
      BY <1>1, <2>2, <2>4, <3>1, <3>2, <3>3
    <3>5. QED
      BY <1>4, <2>4, <3>4 DEF Frac!NoWrap
  <2>5. QED
    BY <2>3, <2>4
<1>9. QED
  BY <1>2, <1>5, <1>7, <1>8 DEF PositionInv

LEMMA SetHaltedKeeps ==
  ASSUME PositionInv, NEW b \in BOOLEAN, Frac!SetHalted(b), UNCHANGED marketVars
  PROVE  PositionInv'
BY DEF PositionInv, PoolTypes, FracTypes, MarketTypes, WrapsOk, SharesKept, Frac!SetHalted, Frac!poolVars,
       marketVars, Frac!Closed

LEMMA FracKeeps ==
  ASSUME PositionInv, Frac!Next, UNCHANGED marketVars
  PROVE  PositionInv' /\ \A a \in Investor : cash'[a] >= cash[a]
<1>1. ASSUME UNCHANGED cash PROVE \A a \in Investor : cash'[a] >= cash[a]
  <2>1. \A a \in Investor : cash[a] \in Nat
    BY Accounts DEF PositionInv, PoolTypes
  <2>2. QED
    BY <1>1, <2>1
<1>2. ASSUME NEW b \in BOOLEAN, Frac!SetHalted(b) PROVE PositionInv' /\ UNCHANGED cash
  BY <1>2, SetHaltedKeeps DEF Frac!SetHalted, Frac!poolVars
<1>3. ASSUME NEW i \in Investor, NEW n \in ShareCounts, Frac!Wrap(i, n) PROVE PositionInv' /\ UNCHANGED cash
  BY <1>3, WrapKeeps DEF Frac!Wrap
<1>4. ASSUME NEW from \in Investor, NEW to \in Investor, NEW i \in Investor, NEW n \in ShareCounts,
             Frac!TransferShares(from, i, to, n)
      PROVE  PositionInv' /\ UNCHANGED cash
  BY <1>4, TransferSharesKeeps DEF Frac!TransferShares, Frac!poolVars
<1>5. ASSUME NEW i \in Investor, Frac!Settle(i) PROVE PositionInv' /\ UNCHANGED cash
  <2>1. UNCHANGED cash
    BY <1>5 DEF Frac!Settle, Frac!poolVars
  <2>2. QED
    BY <1>5, <2>1, SettleKeeps
<1>6. ASSUME NEW i \in Investor, Frac!Unwrap(i) PROVE PositionInv' /\ UNCHANGED cash
  BY <1>6, UnwrapKeeps DEF Frac!Unwrap
<1>7. ASSUME NEW h \in Investor, NEW i \in Investor, Frac!Redeem(h, i)
      PROVE  PositionInv' /\ \A a \in Investor : cash'[a] >= cash[a]
  <2>1. \A a \in Investor : cash[a] \in Nat
    BY Accounts DEF PositionInv, PoolTypes
  <2>2. PositionInv' /\ cash'[h] >= cash[h] /\ \A a \in Investor \ {h} : cash'[a] = cash[a]
    BY <1>7, RedeemKeeps
  <2>3. QED
    BY <2>1, <2>2
<1>8. QED
  BY <1>1, <1>2, <1>3, <1>4, <1>5, <1>6, <1>7 DEF Frac!Next

-----------------------------------------------------------------------------
(* The market and the pool.                                                *)

LEMMA ChargeOf ==
  ASSUME NEW price \in Nat, NEW bps \in 0 .. MaxFeeBps
  PROVE  (price * bps) \div 10000 \in 0 .. price
<1>1. 10000 \in Nat /\ 10000 > 0 /\ bps \in Nat /\ bps <= 10000
  BY FeesOk
<1>2. QED
  BY <1>1, ShareOfWhole

LEMMA ListingKept ==
  ASSUME PositionInv, MarketTypes', UNCHANGED <<poolVars, fracVars>>
  PROVE  PositionInv' /\ Market!TradeIsFairStep
<1>1. PositionInv'
  BY DEF PositionInv, PoolTypes, FracTypes, WrapsOk, SharesKept, poolVars, fracVars, Frac!Closed
<1>2. \A b \in Investor : cash[b] \in Nat /\ cash'[b] = cash[b]
  BY Accounts DEF poolVars, PositionInv, PoolTypes
<1>3. QED
  BY <1>1, <1>2 DEF Market!TradeIsFairStep

LEMMA BuyPositionKeeps ==
  ASSUME PositionInv, NEW b \in Investor, NEW s \in Investor, Market!BuyPosition(b, s), UNCHANGED fracVars
  PROVE  PositionInv' /\ Market!TradeIsFairStep
<1> DEFINE price == listing[s]
           fee == (price * protocolFee) \div 10000
           proceeds == Market!Proceeds(price)
<1>1. /\ b # s /\ price > 0 /\ cash[b] >= fee + proceeds
      /\ listing' = [listing EXCEPT ![s] = 0]
      /\ cash' = [cash EXCEPT ![b] = @ - fee - proceeds, ![Fees] = @ + fee, ![s] = @ + proceeds]
      /\ Market!TransferPosition(s, b)
      /\ UNCHANGED <<protocolFee, marketPaused, repaid>>
  BY DEF Market!BuyPosition
<1>2. price \in Nat /\ fee \in 0 .. price /\ proceeds = price - fee
  BY ChargeOf DEF PositionInv, MarketTypes, Market!Proceeds
<1>3. proceeds \in Nat /\ fee \in Nat /\ fee + proceeds = price
  BY <1>2
<1> HIDE DEF fee, proceeds
<1>4. /\ b \in Frac!Account /\ s \in Frac!Account /\ Fees \in Frac!Account /\ Fees # b /\ Fees # s
      /\ cash \in [Frac!Account -> Nat] /\ Market!Account = Frac!Account
  BY Accounts, HoldersOk DEF PositionInv, PoolTypes
<1>5. cash[b] - fee - proceeds \in Nat /\ cash[Fees] + fee \in Nat /\ cash[s] + proceeds \in Nat
  BY <1>1, <1>3, <1>4
<1>6. /\ cash' \in [Frac!Account -> Nat]
      /\ cash'[b] = cash[b] - fee - proceeds /\ cash'[Fees] = cash[Fees] + fee /\ cash'[s] = cash[s] + proceeds
      /\ \A a \in Investor \ {b, s} : cash'[a] = cash[a]
  <2>1. cash' = [cash EXCEPT ![b] = cash[b] - fee - proceeds, ![Fees] = cash[Fees] + fee, ![s] = cash[s] + proceeds]
    BY <1>1, <1>4
  <2>2. \A a \in Investor \ {b, s} : a \in Frac!Account /\ a # Fees
    BY Accounts, HoldersOk
  <2>3. QED
    BY <1>1, <1>4, <1>5, <2>1, <2>2
<1>7. /\ position' = [position EXCEPT ![b] = position[s], ![s] = 0] /\ position[s] > 0
      /\ repaid = -1
  BY <1>1 DEF Market!TransferPosition, Market!Closed
<1>8. PoolTypes' /\ position'[b] > 0
  BY <1>1, <1>4, <1>6, <1>7 DEF PositionInv, PoolTypes
<1>9. MarketTypes'
  BY <1>1 DEF PositionInv, MarketTypes
<1>10. FracTypes' /\ WrapsOk' /\ SharesKept'
  BY <1>1 DEF PositionInv, FracTypes, WrapsOk, SharesKept, fracVars, Frac!Closed
<1>11. Market!TradeIsFairStep
  <2>1. SUFFICES ASSUME NEW a \in Investor, cash'[a] < cash[a]
                 PROVE  /\ position'[a] > 0
                        /\ \E q \in Investor \ {a} :
                             /\ cash[a] - cash'[a] = listing[q]
                             /\ (cash'[q] - cash[q]) + (cash'[Fees] - cash[Fees]) = listing[q]
    BY DEF Market!TradeIsFairStep
  <2>2. cash[a] \in Nat /\ cash[b] \in Nat /\ cash[s] \in Nat /\ cash[Fees] \in Nat
    BY <1>4, Accounts
  <2>3. a = b
    BY <1>3, <1>6, <2>1, <2>2
  <2>4. cash[b] - cash'[b] = price /\ (cash'[s] - cash[s]) + (cash'[Fees] - cash[Fees]) = price
    BY <1>3, <1>6, <2>2
  <2>5. QED
    BY <1>1, <1>8, <2>3, <2>4
<1>12. QED
  BY <1>8, <1>9, <1>10, <1>11 DEF PositionInv

LEMMA MarketKeeps ==
  ASSUME PositionInv, Market!Next, UNCHANGED fracVars
  PROVE  PositionInv' /\ Market!TradeIsFairStep
<1>1. ASSUME NEW b \in BOOLEAN, Market!SetPaused(b) PROVE PositionInv' /\ Market!TradeIsFairStep
  <2>1. MarketTypes' /\ UNCHANGED poolVars
    BY <1>1 DEF Market!SetPaused, Market!poolVars, poolVars, PositionInv, MarketTypes
  <2>2. QED
    BY <2>1, ListingKept DEF poolVars, fracVars
<1>2. ASSUME NEW bps \in FeeRates, Market!UpdateProtocolFeeBps(bps) PROVE PositionInv' /\ Market!TradeIsFairStep
  <2>1. bps \in 0 .. MaxFeeBps
    BY <1>2, FeesOk DEF Market!UpdateProtocolFeeBps
  <2>2. MarketTypes' /\ UNCHANGED poolVars
    BY <1>2, <2>1 DEF Market!UpdateProtocolFeeBps, Market!poolVars, poolVars, PositionInv, MarketTypes
  <2>3. QED
    BY <2>2, ListingKept DEF poolVars, fracVars
<1>3. ASSUME NEW s \in Investor, NEW price \in AskPrices, Market!ListPosition(s, price)
      PROVE  PositionInv' /\ Market!TradeIsFairStep
  <2>1. price \in Nat
    BY <1>3, FeesOk DEF Market!ListPosition
  <2>2. MarketTypes' /\ UNCHANGED poolVars
    BY <1>3, <2>1 DEF Market!ListPosition, Market!poolVars, poolVars, PositionInv, MarketTypes
  <2>3. QED
    BY <2>2, ListingKept DEF poolVars, fracVars
<1>4. ASSUME NEW s \in Investor, Market!CancelListing(s) PROVE PositionInv' /\ Market!TradeIsFairStep
  <2>1. MarketTypes' /\ UNCHANGED poolVars
    BY <1>4 DEF Market!CancelListing, Market!poolVars, poolVars, PositionInv, MarketTypes
  <2>2. QED
    BY <2>1, ListingKept DEF poolVars, fracVars
<1>5. ASSUME NEW b \in Investor, NEW s \in Investor, Market!BuyPosition(b, s)
      PROVE  PositionInv' /\ Market!TradeIsFairStep
  BY <1>5, BuyPositionKeeps
<1>6. QED
  BY <1>1, <1>2, <1>3, <1>4, <1>5 DEF Market!Next

(* Nobody pays at a step that takes from no investor.                      *)
LEMMA NobodyPays ==
  ASSUME PositionInv, \A a \in Investor : cash'[a] >= cash[a], \A a \in Investor : cash'[a] \in Int
  PROVE  Market!TradeIsFairStep
<1>1. \A a \in Investor : cash[a] \in Nat
  BY Accounts DEF PositionInv, PoolTypes
<1>2. \A a \in Investor : ~(cash'[a] < cash[a])
  BY <1>1
<1>3. QED
  BY <1>2 DEF Market!TradeIsFairStep

LEMMA ClosePoolKeeps ==
  ASSUME PositionInv, NEW n \in Closings, Frac!ClosePool(n), UNCHANGED <<fracVars, marketVars>>
  PROVE  PositionInv' /\ \A a \in Investor : cash'[a] >= cash[a]
<1>1. /\ n \in Nat /\ repaid' = n /\ UNCHANGED position /\ ~Frac!Closed
      /\ cash' = [a \in Frac!Account |-> cash[a] + (n * position[a]) \div 10000]
  BY HoldersOk DEF Frac!ClosePool
<1>2. \A a \in Frac!Account : (n * position[a]) \div 10000 \in Nat /\ cash[a] \in Nat
  BY <1>1, NatProduct, BpsOf DEF PositionInv, PoolTypes
<1> DEFINE part(a) == (n * position[a]) \div 10000
<1>3. cash' = [a \in Frac!Account |-> cash[a] + part(a)] /\ \A a \in Frac!Account : part(a) \in Nat /\ cash[a] \in Nat
  BY <1>1, <1>2
<1> HIDE DEF part
<1>4. cash' \in [Frac!Account -> Nat] /\ \A a \in Frac!Account : cash'[a] >= cash[a]
  BY <1>3
<1>5. PoolTypes' /\ FracTypes' /\ MarketTypes' /\ SharesKept' /\ Frac!Closed'
  BY <1>1, <1>4 DEF PositionInv, PoolTypes, FracTypes, MarketTypes, SharesKept, fracVars, marketVars, Frac!Closed
<1>6. WrapsOk'
  BY <1>1, <1>5 DEF PositionInv, WrapsOk, WrapOk, fracVars
<1>7. QED
  BY <1>4, <1>5, <1>6, Accounts DEF PositionInv

LEMMA PoolStepKeeps ==
  ASSUME PositionInv, PoolStep
  PROVE  PositionInv' /\ Market!TradeIsFairStep
<1>1. PositionInv' /\ \A a \in Investor : cash'[a] >= cash[a]
  <2>1. ASSUME UNCHANGED cash PROVE \A a \in Investor : cash'[a] >= cash[a]
    <3>1. \A a \in Investor : cash[a] \in Nat
      BY Accounts DEF PositionInv, PoolTypes
    <3>2. QED
      BY <2>1, <3>1
  <2>2. ASSUME NEW i \in Investor, NEW j \in Investor, Frac!TransferPosition(i, j), UNCHANGED <<repaid, cash>>,
               UNCHANGED <<fracVars, marketVars>>
        PROVE  PositionInv' /\ UNCHANGED cash
    <3>1. PoolTypes'
      BY <2>2, Accounts, PositionMoves DEF PositionInv, PoolTypes
    <3>2. FracTypes' /\ MarketTypes' /\ WrapsOk' /\ SharesKept'
      BY <2>2 DEF PositionInv, FracTypes, MarketTypes, WrapsOk, SharesKept, fracVars, marketVars, Frac!Closed
    <3>3. QED
      BY <2>2, <3>1, <3>2 DEF PositionInv
  <2>3. ASSUME NEW n \in Gifts, Frac!Donate(n), UNCHANGED <<fracVars, marketVars>>
        PROVE  PositionInv' /\ \A a \in Investor : cash'[a] = cash[a]
    <3>1. n \in Nat /\ cash' = [cash EXCEPT ![Vault] = cash[Vault] + n] /\ UNCHANGED <<position, repaid>>
      BY <2>3, HoldersOk DEF Frac!Donate
    <3>2. cash \in [Frac!Account -> Nat] /\ Vault \in Frac!Account /\ \A a \in Investor : a \in Frac!Account /\ a # Vault
      BY Accounts, HoldersOk DEF PositionInv, PoolTypes
    <3>3. PoolTypes' /\ \A a \in Investor : cash'[a] = cash[a]
      BY <3>1, <3>2 DEF PositionInv, PoolTypes
    <3>4. FracTypes' /\ MarketTypes' /\ WrapsOk' /\ SharesKept'
      BY <2>3, <3>1 DEF PositionInv, FracTypes, MarketTypes, WrapsOk, SharesKept, fracVars, marketVars, Frac!Closed
    <3>5. QED
      BY <3>3, <3>4 DEF PositionInv
  <2>4. ASSUME NEW n \in Gifts, Frac!Donate(n), UNCHANGED <<fracVars, marketVars>>
        PROVE  \A a \in Investor : cash'[a] >= cash[a]
    <3>1. \A a \in Investor : cash[a] \in Nat /\ cash'[a] = cash[a]
      BY <2>3, <2>4, Accounts DEF PositionInv, PoolTypes
    <3>2. QED
      BY <3>1
  <2>5. QED
    BY <2>1, <2>2, <2>3, <2>4, ClosePoolKeeps DEF PoolStep
<1>2. \A a \in Investor : cash'[a] \in Int
  BY <1>1, Accounts DEF PositionInv, PoolTypes
<1>3. QED
  BY <1>1, <1>2, NobodyPays

LEMMA PositionStepKeeps ==
  ASSUME PositionInv, PositionStep
  PROVE  PositionInv' /\ Market!TradeIsFairStep
<1>1. ASSUME Frac!Next, UNCHANGED marketVars PROVE PositionInv' /\ Market!TradeIsFairStep
  <2>1. PositionInv' /\ \A a \in Investor : cash'[a] >= cash[a]
    BY <1>1, FracKeeps
  <2>2. \A a \in Investor : cash'[a] \in Int
    BY <2>1, Accounts DEF PositionInv, PoolTypes
  <2>3. QED
    BY <2>1, <2>2, NobodyPays
<1>2. QED
  BY <1>1, MarketKeeps, PoolStepKeeps DEF PositionStep

LEMMA PositionInit ==
  ASSUME Frac!PoolInit, Frac!Init, Market!Init
  PROVE  PositionInv
<1>1. PoolTypes
  BY HoldersOk DEF Frac!PoolInit, PoolTypes, Frac!Account
<1>2. FracTypes
  <2>1. Frac!NoWrap \in WrapRecord
    BY DEF Frac!NoWrap, WrapRecord
  <2>2. QED
    BY <2>1 DEF Frac!Init, FracTypes
<1>3. MarketTypes
  <2>1. MaxFeeBps \in Nat /\ FeeRates \subseteq Nat
    BY FeesOk
  <2>2. protocolFee \in FeeRates /\ protocolFee <= MaxFeeBps
    BY DEF Market!Init
  <2>3. protocolFee \in 0 .. MaxFeeBps /\ listing \in [Investor -> Nat]
    BY <2>1, <2>2 DEF Market!Init
  <2>4. marketPaused \in BOOLEAN
    BY DEF Market!Init
  <2>5. QED
    BY <2>3, <2>4 DEF MarketTypes
<1>4. WrapsOk
  BY DEF Frac!Init, WrapsOk, WrapOk, Frac!NoWrap
<1>5. SharesKept
  <2>1. \A f : f = [h \in Investor |-> 0] => SumOver(f, Investor) = 0
    BY HoldersOk, SumZero
  <2>2. QED
    BY <2>1 DEF Frac!Init, SharesKept, Frac!NoWrap
<1>6. QED
  BY <1>1, <1>2, <1>3, <1>4, <1>5 DEF PositionInv

LEMMA PositionClaims ==
  ASSUME PositionInv
  PROVE  Frac!RedeemedWithinPayout /\ Frac!SharesConserved
<1>1. Frac!RedeemedWithinPayout
  BY DEF PositionInv, FracTypes, WrapRecord, WrapsOk, WrapOk, Frac!RedeemedWithinPayout
<1>2. Frac!SharesConserved
  BY SameSumOfShares DEF PositionInv, SharesKept, Frac!SharesConserved
<1>3. QED
  BY <1>1, <1>2

-----------------------------------------------------------------------------
(* tranche                                                                 *)

TrancheRecord == [invoices : Bundles, faceValue : Nat, funded : Nat]

TrancheInv ==
  /\ tranches \in Seq(TrancheRecord) /\ stakes \in Seq([Investor -> Nat]) /\ DOMAIN stakes = DOMAIN tranches
  /\ \A id \in DOMAIN tranches : SumOver(stakes[id], Investor) <= tranches[id].funded

LEMMA FundsNobodyYet == \A f : f = [i \in Investor |-> 0] => SumOver(f, Investor) = 0
  BY HoldersOk, SumZero

LEMMA OneShareChanged ==
  ASSUME NEW h \in [Investor -> Nat], NEW i \in Investor, NEW n \in Nat
  PROVE  SumOver([h EXCEPT ![i] = n], Investor) = SumOver(h, Investor) - h[i] + n
<1> DEFINE g == [h EXCEPT ![i] = n]
<1>1. (\A x \in Investor : h[x] \in Int) /\ g[i] = n /\ n \in Int /\ \A x \in Investor \ {i} : g[x] = h[x]
  OBVIOUS
<1> HIDE DEF g
<1>2. SumOver(g, Investor) = SumOver(h, Investor) - h[i] + g[i]
  BY <1>1, HoldersOk, SumChange
<1>3. QED
  BY <1>1, <1>2 DEF g

LEMMA CreateTrancheKeeps ==
  ASSUME TrancheInv, NEW ids \in Bundles, Bundle!CreateTranche(ids)
  PROVE  TrancheInv'
<1> DEFINE t == [invoices |-> ids, faceValue |-> Bundle!TotalFaceValue(ids), funded |-> 0]
           z == [i \in Investor |-> 0]
<1>1. /\ tranches' = Append(tranches, t) /\ stakes' = Append(stakes, z)
      /\ \A k \in DOMAIN ids : ids[k] \in DOMAIN FaceValues
  BY DEF Bundle!CreateTranche
<1>2. t \in TrancheRecord /\ t.funded = 0
  <2> DEFINE f == [k \in DOMAIN ids |-> FaceValues[ids[k]]]
  <2>1. IsFiniteSet(DOMAIN ids) /\ \A k \in DOMAIN ids : f[k] \in Nat
    BY <1>1, BundlesOk
  <2> HIDE DEF f
  <2>2. SumOver(f, DOMAIN ids) \in Nat
    BY <2>1, SumNat
  <2>3. Bundle!TotalFaceValue(ids) \in Nat
    BY <2>2, SameSumOfShares DEF Bundle!TotalFaceValue, f
  <2>4. QED
    BY <2>3 DEF TrancheRecord
<1>3. z \in [Investor -> Nat] /\ SumOver(z, Investor) = 0
  BY FundsNobodyYet
<1> HIDE DEF t, z
<1>4. /\ tranches' \in Seq(TrancheRecord) /\ stakes' \in Seq([Investor -> Nat]) /\ DOMAIN stakes' = DOMAIN tranches'
      /\ DOMAIN tranches' = DOMAIN tranches \cup {Len(tranches) + 1}
      /\ tranches'[Len(tranches) + 1] = t /\ stakes'[Len(tranches) + 1] = z
      /\ \A id \in DOMAIN tranches : tranches'[id] = tranches[id] /\ stakes'[id] = stakes[id]
  BY <1>1, <1>2, <1>3 DEF TrancheInv
<1>5. ASSUME NEW id \in DOMAIN tranches' PROVE SumOver(stakes'[id], Investor) <= tranches'[id].funded
  BY <1>2, <1>3, <1>4, <1>5 DEF TrancheInv
<1>6. QED
  BY <1>4, <1>5 DEF TrancheInv

LEMMA FundTrancheKeeps ==
  ASSUME TrancheInv, NEW i \in Investor, NEW id \in DOMAIN tranches, NEW amount \in Bids,
         Bundle!FundTranche(i, id, amount)
  PROVE  TrancheInv'
<1> DEFINE t == tranches[id]
           u == [t EXCEPT !.funded = t.funded + amount]
           f == stakes[id]
           g == [f EXCEPT ![i] = amount]
<1>1. amount \in Nat /\ tranches' = [tranches EXCEPT ![id] = u]
  BY BundlesOk DEF Bundle!FundTranche, Bundle!Funded
<1>2. stakes' = [stakes EXCEPT ![id] = g]
  BY DEF Bundle!FundTranche, TrancheInv
<1>3. t \in TrancheRecord /\ f \in [Investor -> Nat] /\ id \in DOMAIN stakes
      /\ SumOver(f, Investor) <= t.funded
  BY DEF TrancheInv
<1>4. u \in TrancheRecord /\ u.funded = t.funded + amount /\ g \in [Investor -> Nat]
  BY <1>1, <1>3 DEF TrancheRecord
<1>5. SumOver(g, Investor) <= u.funded
  <2>1. SumOver(g, Investor) = SumOver(f, Investor) - f[i] + amount /\ f[i] \in Nat
    BY <1>1, <1>3, OneShareChanged
  <2>2. SumOver(f, Investor) \in Int /\ t.funded \in Nat
    BY <1>3, HoldersOk, SumInt DEF TrancheRecord
  <2>3. QED
    BY <1>1, <1>3, <1>4, <2>1, <2>2
<1> HIDE DEF t, u, f, g
<1>6. /\ tranches' \in Seq(TrancheRecord) /\ stakes' \in Seq([Investor -> Nat])
      /\ DOMAIN stakes' = DOMAIN tranches' /\ DOMAIN tranches' = DOMAIN tranches
      /\ tranches'[id] = u /\ stakes'[id] = g
      /\ \A x \in DOMAIN tranches \ {id} : tranches'[x] = tranches[x] /\ stakes'[x] = stakes[x]
  BY <1>1, <1>2, <1>3, <1>4 DEF TrancheInv
<1>7. ASSUME NEW x \in DOMAIN tranches' PROVE SumOver(stakes'[x], Investor) <= tranches'[x].funded
  BY <1>5, <1>6, <1>7 DEF TrancheInv
<1>8. QED
  BY <1>6, <1>7 DEF TrancheInv

LEMMA TrancheStarts ==
  ASSUME Bundle!Init
  PROVE  TrancheInv
<1>1. tranches = <<>> /\ stakes = <<>>
  BY DEF Bundle!Init
<1>2. tranches \in Seq(TrancheRecord) /\ stakes \in Seq([Investor -> Nat]) /\ DOMAIN tranches = {} /\ DOMAIN stakes = {}
  BY <1>1
<1>3. QED
  BY <1>2 DEF TrancheInv

LEMMA TrancheKeeps ==
  ASSUME TrancheInv, TrancheStep
  PROVE  TrancheInv'
BY CreateTrancheKeeps, FundTrancheKeeps DEF TrancheStep, Bundle!Next

LEMMA TrancheClaims ==
  ASSUME TrancheInv
  PROVE  Bundle!PositionsWithinFunding
BY SameSumOfShares DEF TrancheInv, Bundle!PositionsWithinFunding

-----------------------------------------------------------------------------
(* referral_rewards                                                        *)

LEMMA SameCardinality == \A S : Reward!Cardinality(S) = Cardinality(S)
  BY DEF Reward!Cardinality, Cardinality, Reward!IsFiniteSet, IsFiniteSet

RewardInv ==
  /\ funded \in Nat /\ paid \in Nat /\ held \in Nat
  /\ rewarded \in SUBSET Newcomer /\ referred \in SUBSET Newcomer
  /\ firstInvoice \in [Newcomer -> {"none", "Created", "Repaid", "Defaulted"}]
  /\ paid = Bonus * Cardinality(rewarded)
  /\ paid <= funded /\ funded <= Allocation
  /\ held >= funded - paid

LEMMA ClaimRewardKeeps ==
  ASSUME RewardInv, NEW s \in Newcomer, Reward!ClaimReferralReward(s)
  PROVE  RewardInv'
<1>1. /\ s \notin rewarded /\ funded - paid >= Bonus /\ held >= Bonus
      /\ rewarded' = rewarded \cup {s} /\ paid' = paid + Bonus /\ held' = held - Bonus
      /\ UNCHANGED <<funded, referred, firstInvoice>>
  BY DEF Reward!ClaimReferralReward, Reward!Affordable, Reward!nftVars
<1>2. Cardinality(rewarded) \in Nat /\ Cardinality(rewarded') = Cardinality(rewarded) + 1
  <2>1. IsFiniteSet(rewarded)
    BY RewardsOk, FS_Subset DEF RewardInv
  <2>2. QED
    BY <1>1, <2>1, FS_AddElement, FS_CardinalityType
<1>3. paid' = Bonus * Cardinality(rewarded')
  <2>1. Bonus \in Nat /\ paid = Bonus * Cardinality(rewarded)
    BY RewardsOk DEF RewardInv
  <2>2. \A b, n \in Nat : b * (n + 1) = b * n + b
    OBVIOUS
  <2>3. Bonus * (Cardinality(rewarded) + 1) = Bonus * Cardinality(rewarded) + Bonus
    BY <1>2, <2>1, <2>2
  <2>4. QED
    BY <1>1, <1>2, <2>1, <2>3
<1>4. rewarded' \in SUBSET Newcomer
  BY <1>1 DEF RewardInv
<1>5. paid' \in Nat /\ held' \in Nat /\ paid' <= funded /\ held' >= funded - paid'
  BY <1>1, RewardsOk DEF RewardInv
<1>6. QED
  BY <1>1, <1>3, <1>4, <1>5 DEF RewardInv

LEMMA RewardKeeps ==
  ASSUME RewardInv, RewardStep
  PROVE  RewardInv'
<1>1. ASSUME NEW n \in RewardAmounts, Reward!Deposit(n) PROVE RewardInv'
  BY <1>1, RewardsOk DEF Reward!Deposit, Reward!nftVars, RewardInv
<1>2. ASSUME NEW n \in RewardAmounts, Reward!Donate(n) PROVE RewardInv'
  BY <1>2, RewardsOk DEF Reward!Donate, Reward!nftVars, RewardInv
<1>3. ASSUME NEW s \in Newcomer, NEW b \in BOOLEAN, Reward!Mint(s, b) PROVE RewardInv'
  BY <1>3 DEF Reward!Mint, RewardInv
<1>4. ASSUME NEW s \in Newcomer, NEW status \in {"Repaid", "Defaulted"}, Reward!Close(s, status) PROVE RewardInv'
  BY <1>4 DEF Reward!Close, RewardInv
<1>5. QED
  BY <1>1, <1>2, <1>3, <1>4, ClaimRewardKeeps DEF RewardStep, Reward!Next

LEMMA RewardStarts ==
  ASSUME Reward!Init
  PROVE  RewardInv
<1>1. Cardinality({}) = 0 /\ Bonus * 0 = 0 /\ Allocation \in Nat
  BY FS_EmptySet, RewardsOk
<1>2. QED
  BY <1>1 DEF Reward!Init, RewardInv

LEMMA RewardClaims ==
  ASSUME RewardInv
  PROVE  Reward!BonusesCovered
BY SameCardinality DEF RewardInv, Reward!BonusesCovered

-----------------------------------------------------------------------------
(* A recursion that takes one step of a set of states for each number has  *)
(* a solution, and it stays in the set.                                    *)

RunOf(F, X, b, step, n) == F \in [0 .. n -> X] /\ F[0] = b /\ \A i \in 1 .. n : F[i] = step[i][F[i - 1]]

LEMMA IterationExists ==
  ASSUME NEW n \in Nat, NEW X, NEW b \in X, NEW step \in [1 .. n -> [X -> X]]
  PROVE  \E F : RunOf(F, X, b, step, n)
<1> DEFINE Runs(F, m) == RunOf(F, X, b, step, m)
           G == {m \in Nat : m <= n => \E F : Runs(F, m)}
<1>1. 0 \in G
  <2> DEFINE F == [i \in 0 .. 0 |-> b]
  <2>1. Runs(F, 0)
    BY DEF RunOf
  <2> HIDE DEF F, Runs
  <2>2. QED
    BY <2>1
<1>2. ASSUME NEW m \in Nat, m \in G PROVE m + 1 \in G
  <2>1. SUFFICES ASSUME m + 1 <= n PROVE \E F : Runs(F, m + 1)
    OBVIOUS
  <2>2. PICK F : Runs(F, m)
    BY <1>2, <2>1
  <2> DEFINE x == step[m + 1][F[m]]
             H == [i \in 0 .. m + 1 |-> IF i = m + 1 THEN x ELSE F[i]]
  <2>3. m \in 0 .. m /\ F[m] \in X /\ m + 1 \in 1 .. n /\ x \in X
    BY <2>1, <2>2 DEF RunOf
  <2>4. H \in [0 .. m + 1 -> X] /\ H[m + 1] = x /\ \A i \in 0 .. m : H[i] = F[i]
    BY <2>2, <2>3 DEF RunOf
  <2> HIDE DEF H
  <2>5. H[0] = b /\ H[m] = F[m]
    BY <2>2, <2>4 DEF RunOf
  <2>6. ASSUME NEW i \in 1 .. m + 1 PROVE H[i] = step[i][H[i - 1]]
    <3>1. CASE i = m + 1
      <4>1. i - 1 = m
        BY <3>1
      <4>2. QED
        BY <3>1, <4>1, <2>4, <2>5
    <3>2. CASE i # m + 1
      <4>1. i \in 1 .. m /\ i \in 0 .. m /\ i - 1 \in 0 .. m
        BY <3>2
      <4>2. QED
        BY <4>1, <2>2, <2>4 DEF RunOf
    <3>3. QED
      BY <3>1, <3>2
  <2>7. Runs(H, m + 1)
    BY <2>4, <2>5, <2>6 DEF RunOf
  <2> HIDE DEF Runs
  <2>8. QED
    BY <2>7
<1>3. n \in G
  <2>1. \A m \in Nat : m \in G => m + 1 \in G
    BY <1>2
  <2> HIDE DEF G
  <2>2. QED
    BY <1>1, <2>1, NumberInduction
<1>4. QED
  BY <1>3

-----------------------------------------------------------------------------
(* The withdrawal queue.  Identifiers are given out in order, the next one *)
(* is the one after the tail; nothing is left before the head, nothing was *)
(* paid after it, and what waits is not paid in full.                      *)

RequestRecord == [investor : Investor, amount : Nat \ {0}, filledAmount : Nat]
LoopState ==
  [requests : [Queue!Numbers -> RequestRecord \cup {Queue!NoRequest}], head : Nat, left : Int,
   paid : [Queue!Numbers -> Nat], over : BOOLEAN]

InOrder(s, tail) ==
  /\ s.head <= tail
  /\ \A id \in Queue!Numbers :
       /\ (id < s.head \/ id > tail) => s.requests[id] = Queue!NoRequest
       /\ id > s.head => s.paid[id] = 0
       /\ s.requests[id] # Queue!NoRequest =>
            s.paid[id] = s.requests[id].filledAmount /\ s.paid[id] < s.requests[id].amount

QueueState(liquidity) ==
  [requests |-> requests, head |-> pointers.head, left |-> liquidity, paid |-> filled, over |-> FALSE]

QueueInv ==
  /\ pointers \in [head : Nat, tail : 0 .. MaxRequests, nextId : Nat]
  /\ requests \in [Queue!Numbers -> RequestRecord \cup {Queue!NoRequest}]
  /\ filled \in [Queue!Numbers -> Nat]
  /\ pointers.nextId = pointers.tail + 1
  /\ InOrder(QueueState(0), pointers.tail)

LEMMA InQueue ==
  ASSUME NEW liquidity \in Int, QueueInv
  PROVE  QueueState(liquidity) \in LoopState /\ InOrder(QueueState(liquidity), pointers.tail)
BY DEF QueueInv, QueueState, LoopState, InOrder

LEMMA FillStays ==
  ASSUME NEW s \in LoopState, NEW id \in Queue!Numbers, NEW refused, NEW tail \in Nat
  PROVE  /\ Queue!Fill(s, id, refused) \in LoopState
         /\ InOrder(s, tail) /\ s.head = id /\ id < tail =>
              LET t == Queue!Fill(s, id, refused)
              IN InOrder(t, tail) /\ (t.over \/ t.left <= 0 \/ t.head = id + 1)
         /\ s.over \/ s.left <= 0 => Queue!Fill(s, id, refused) = s
<1> DEFINE r == s.requests[id]
           owed == r.amount - r.filledAmount
           n == IF owed <= s.left THEN owed ELSE s.left
           t == Queue!Fill(s, id, refused)
           p == [s EXCEPT !.head = s.head + 1]
           o == [s EXCEPT !.over = TRUE]
           q == IF n = owed THEN Queue!NoRequest ELSE [r EXCEPT !.filledAmount = r.filledAmount + n]
           h == IF n = owed THEN s.head + 1 ELSE s.head
           rest == [s.requests EXCEPT ![id] = q]
           paidNow == [s.paid EXCEPT ![id] = s.paid[id] + n]
           f == [s EXCEPT !.left = s.left - n, !.paid = paidNow, !.head = h, !.requests = rest]
<1>1. /\ s.requests \in [Queue!Numbers -> RequestRecord \cup {Queue!NoRequest}] /\ s.head \in Nat /\ s.left \in Int
      /\ s.paid \in [Queue!Numbers -> Nat] /\ s.over \in BOOLEAN
  BY DEF LoopState
<1>2. t = IF s.over \/ s.left <= 0 THEN s
          ELSE IF r = Queue!NoRequest THEN p
          ELSE IF n <= 0 \/ r.investor \in refused THEN o
          ELSE f
  BY <1>1 DEF Queue!Fill, LoopState
<1> DEFINE Good(x) == InOrder(s, tail) /\ s.head = id /\ id < tail =>
                        InOrder(x, tail) /\ (x.over \/ x.left <= 0 \/ x.head = id + 1)
<1>3. id \in Nat /\ MaxRequests \in Nat
  BY QueueOk DEF Queue!Numbers
<1>4. CASE s.over \/ s.left <= 0
  BY <1>2, <1>4
<1>5. CASE ~(s.over \/ s.left <= 0) /\ r = Queue!NoRequest
  <2>1. t = p
    BY <1>2, <1>5
  <2>2. p \in LoopState /\ p.head = s.head + 1 /\ p.requests = s.requests /\ p.paid = s.paid /\ p.over = s.over /\ p.left = s.left
    BY <1>1 DEF LoopState
  <2> HIDE DEF p
  <2>3. Good(p)
    <3>1. SUFFICES ASSUME InOrder(s, tail), s.head = id, id < tail PROVE InOrder(p, tail) /\ p.head = id + 1
      OBVIOUS
    <3>2. \A x \in Queue!Numbers : x \in Nat
      BY DEF Queue!Numbers
    <3>3. QED
      BY <1>1, <1>3, <1>5, <2>2, <3>1, <3>2 DEF InOrder
  <2>4. QED
    BY <1>5, <2>1, <2>2, <2>3
<1>6. CASE ~(s.over \/ s.left <= 0) /\ r # Queue!NoRequest /\ (n <= 0 \/ r.investor \in refused)
  <2>1. t = o
    BY <1>2, <1>6
  <2>2. o \in LoopState /\ o.head = s.head /\ o.requests = s.requests /\ o.paid = s.paid /\ o.over
    BY <1>1 DEF LoopState
  <2> HIDE DEF o
  <2>3. Good(o)
    BY <2>2 DEF InOrder
  <2>4. QED
    BY <1>6, <2>1, <2>2, <2>3
<1>7. CASE ~(s.over \/ s.left <= 0) /\ r # Queue!NoRequest /\ ~(n <= 0 \/ r.investor \in refused)
  <2>1. t = f
    BY <1>2, <1>7
  <2>2. r \in RequestRecord
    BY <1>1, <1>7
  <2>3. /\ r.amount \in Nat /\ r.filledAmount \in Nat /\ owed \in Int /\ n \in Nat /\ n > 0 /\ n <= owed
        /\ n # owed => s.left - n = 0
    <3>1. r.amount \in Nat /\ r.filledAmount \in Nat
      BY <2>2 DEF RequestRecord
    <3>2. QED
      BY <3>1, <1>1, <1>7
  <2>4. /\ q \in RequestRecord \cup {Queue!NoRequest}
        /\ n = owed => q = Queue!NoRequest
        /\ n # owed => q.filledAmount = r.filledAmount + n /\ q.amount = r.amount
    BY <2>2, <2>3 DEF RequestRecord
  <2> HIDE DEF q, n, owed
  <2>5. h \in Nat /\ s.left - n \in Int /\ paidNow \in [Queue!Numbers -> Nat]
        /\ rest \in [Queue!Numbers -> RequestRecord \cup {Queue!NoRequest}]
    BY <1>1, <2>3, <2>4
  <2> HIDE DEF h, rest, paidNow
  <2>6. /\ f.left = s.left - n /\ f.over = s.over /\ f.head = h /\ f.requests = rest /\ f.paid = paidNow
        /\ f \in LoopState
    BY <2>5 DEF LoopState
  <2> HIDE DEF f
  <2>7. Good(f)
    <3>1. SUFFICES ASSUME InOrder(s, tail), s.head = id, id < tail
                   PROVE  InOrder(f, tail) /\ (f.left <= 0 \/ f.head = id + 1)
      OBVIOUS
    <3>2. /\ f.requests[id] = q /\ f.paid[id] = s.paid[id] + n /\ s.paid[id] \in Nat
          /\ \A x \in Queue!Numbers \ {id} : f.requests[x] = s.requests[x] /\ f.paid[x] = s.paid[x]
      BY <1>1, <2>3, <2>6 DEF rest, paidNow
    <3>3. f.head = id \/ (f.head = id + 1 /\ f.requests[id] = Queue!NoRequest)
      BY <2>4, <2>6, <3>1, <3>2 DEF h
    <3>4. s.paid[id] = r.filledAmount /\ r.filledAmount < r.amount
      BY <1>7, <3>1 DEF InOrder
    <3>5. ASSUME NEW x \in Queue!Numbers
          PROVE  /\ (x < f.head \/ x > tail) => f.requests[x] = Queue!NoRequest
                 /\ x > f.head => f.paid[x] = 0
                 /\ f.requests[x] # Queue!NoRequest =>
                      f.paid[x] = f.requests[x].filledAmount /\ f.paid[x] < f.requests[x].amount
      <4>1. x \in Nat
        BY DEF Queue!Numbers
      <4>2. CASE x = id
        <5>1. f.requests[x] # Queue!NoRequest =>
                f.paid[x] = f.requests[x].filledAmount /\ f.paid[x] < f.requests[x].amount
          <6>1. n # owed => r.filledAmount + n < r.amount
            BY <2>3 DEF owed
          <6>2. QED
            BY <2>4, <3>2, <3>4, <4>2, <6>1
        <5>2. QED
          BY <1>3, <3>1, <3>2, <3>3, <4>1, <4>2, <5>1
      <4>3. CASE x # id
        <5>1. f.requests[x] = s.requests[x] /\ f.paid[x] = s.paid[x] /\ (x < f.head => x < s.head) /\ (x > f.head => x > s.head)
          BY <1>3, <3>1, <3>2, <3>3, <4>1, <4>3
        <5>2. QED
          BY <3>1, <5>1 DEF InOrder
      <4>4. QED
        BY <4>2, <4>3
    <3>6. f.head <= tail /\ (f.left <= 0 \/ f.head = id + 1)
      BY <1>3, <2>3, <2>6, <3>1, <3>3 DEF h
    <3>7. QED
      BY <3>5, <3>6 DEF InOrder
  <2>8. QED
    BY <1>7, <2>1, <2>6, <2>7
<1>8. QED
  BY <1>4, <1>5, <1>6, <1>7

(* The loop of process_queue, as a function of the number of turns.        *)
Serves(F, start, from, refused, n) ==
  F = [k \in 0 .. n |-> IF k = 0 THEN start ELSE Queue!Fill(F[k - 1], from + k - 1, refused)]

LEMMA ServingExists ==
  ASSUME NEW start \in LoopState, NEW from \in Nat, NEW refused, NEW n \in Nat, from + n - 1 <= MaxRequests
  PROVE  \E F \in [0 .. n -> LoopState] : Serves(F, start, from, refused, n)
<1> DEFINE step == [k \in 1 .. n |-> [s \in LoopState |-> Queue!Fill(s, from + k - 1, refused)]]
<1>1. \A k \in 1 .. n : from + k - 1 \in Queue!Numbers
  BY QueueOk DEF Queue!Numbers
<1>2. \A k \in 1 .. n : \A s \in LoopState : Queue!Fill(s, from + k - 1, refused) \in LoopState
  <2>1. 0 \in Nat
    OBVIOUS
  <2>2. QED
    BY <1>1, <2>1, FillStays
<1>3. step \in [1 .. n -> [LoopState -> LoopState]]
  BY <1>2
<1>4. \A k \in 1 .. n : \A s \in LoopState : step[k][s] = Queue!Fill(s, from + k - 1, refused)
  OBVIOUS
<1> HIDE DEF step
<1>5. PICK F : RunOf(F, LoopState, start, step, n)
  BY <1>3, IterationExists
<1>6. F \in [0 .. n -> LoopState] /\ F[0] = start /\ \A i \in 1 .. n : F[i] = step[i][F[i - 1]]
  BY <1>5 DEF RunOf
<1>7. ASSUME NEW k \in 0 .. n PROVE F[k] = IF k = 0 THEN start ELSE Queue!Fill(F[k - 1], from + k - 1, refused)
  <2>1. CASE k = 0
    BY <1>6, <2>1
  <2>2. CASE k # 0
    <3>1. k \in 1 .. n /\ k - 1 \in 0 .. n
      BY <2>2
    <3>2. QED
      BY <3>1, <2>2, <1>4, <1>6
  <2>3. QED
    BY <2>1, <2>2
<1>8. F = [k \in 0 .. n |-> IF k = 0 THEN start ELSE Queue!Fill(F[k - 1], from + k - 1, refused)]
  <2>1. F = [k \in 0 .. n |-> F[k]]
    BY <1>6
  <2>2. QED
    BY <1>7, <2>1
<1>9. QED
  BY <1>6, <1>8 DEF Serves

(* Each turn works at the head, or the loop is over.                       *)
LEMMA ServingInOrder ==
  ASSUME NEW F, NEW start \in LoopState, NEW from \in Nat, NEW refused, NEW n \in Nat,
         NEW tail \in 0 .. MaxRequests, from + n = tail, start.head = from, InOrder(start, tail),
         Serves(F, start, from, refused, n)
  PROVE  F[n] \in LoopState /\ InOrder(F[n], tail)
<1> DEFINE Turn(k) == /\ F[k] \in LoopState /\ InOrder(F[k], tail)
                      /\ F[k].over \/ F[k].left <= 0 \/ F[k].head = from + k
           G == {k \in Nat : k <= n => Turn(k)}
<1>1. F[0] = start /\ \A k \in 1 .. n : F[k] = Queue!Fill(F[k - 1], from + k - 1, refused)
  BY DEF Serves
<1>2. 0 \in G
  <2>1. from + 0 = from
    OBVIOUS
  <2>2. QED
    BY <1>1, <2>1
<1>3. ASSUME NEW k \in Nat, k \in G PROVE k + 1 \in G
  <2>1. SUFFICES ASSUME k + 1 <= n PROVE Turn(k + 1)
    OBVIOUS
  <2>2. Turn(k) /\ k + 1 \in 1 .. n /\ (k + 1) - 1 = k
    BY <1>3, <2>1
  <2> DEFINE id == from + (k + 1) - 1
             s == F[k]
             t == Queue!Fill(s, id, refused)
  <2>3. F[k + 1] = t
    BY <1>1, <2>2
  <2>4. id = from + k /\ id \in Queue!Numbers /\ id < tail /\ id + 1 = from + (k + 1) /\ tail \in Nat
    BY <2>1, QueueOk DEF Queue!Numbers
  <2>5. s \in LoopState /\ InOrder(s, tail) /\ (s.over \/ s.left <= 0 \/ s.head = id)
    BY <2>2, <2>4
  <2> HIDE DEF id, s
  <2>6. /\ t \in LoopState
        /\ InOrder(s, tail) /\ s.head = id /\ id < tail =>
             InOrder(t, tail) /\ (t.over \/ t.left <= 0 \/ t.head = id + 1)
        /\ s.over \/ s.left <= 0 => t = s
    BY <2>4, <2>5, FillStays
  <2> HIDE DEF t
  <2>7. InOrder(t, tail) /\ (t.over \/ t.left <= 0 \/ t.head = from + (k + 1))
    BY <2>4, <2>6, <2>5
  <2>8. QED
    BY <2>3, <2>6, <2>7
<1>4. n \in G
  <2>1. \A k \in Nat : k \in G => k + 1 \in G
    BY <1>3
  <2> HIDE DEF G
  <2>2. QED
    BY <1>2, <2>1, NumberInduction
<1>5. QED
  BY <1>4

LEMMA ProcessQueueKeeps ==
  ASSUME QueueInv, NEW liquidity \in QueueAmounts, NEW refused \in SUBSET Investor,
         Queue!ProcessQueue(liquidity, refused)
  PROVE  QueueInv'
<1> DEFINE start == QueueState(liquidity)
           n == Queue!Waiting
           F == CHOOSE F : Serves(F, start, pointers.head, refused, n)
<1>1. /\ requests' = F[n].requests /\ filled' = F[n].paid
      /\ pointers' = [pointers EXCEPT !.head = F[n].head]
  BY DEF Queue!ProcessQueue, Serves, QueueState
<1>2. liquidity \in Int
  BY QueueOk
<1>3. /\ start \in LoopState /\ InOrder(start, pointers.tail) /\ start.head = pointers.head
      /\ pointers.head \in Nat /\ pointers.tail \in 0 .. MaxRequests
  BY <1>2, InQueue DEF QueueState, QueueInv
<1>4. n \in Nat /\ pointers.head + n = pointers.tail /\ pointers.head + n - 1 <= MaxRequests
  BY <1>3, QueueOk DEF Queue!Waiting, InOrder
<1> HIDE DEF start, n
<1>5. Serves(F, start, pointers.head, refused, n)
  <2>1. \E H : Serves(H, start, pointers.head, refused, n)
    BY <1>3, <1>4, ServingExists
  <2>2. QED
    BY <2>1, Zenon
<1> HIDE DEF F
<1>6. F[n] \in LoopState /\ InOrder(F[n], pointers.tail)
  BY <1>3, <1>4, <1>5, ServingInOrder
<1>7. /\ pointers' \in [head : Nat, tail : 0 .. MaxRequests, nextId : Nat]
      /\ pointers'.head = F[n].head /\ pointers'.tail = pointers.tail /\ pointers'.nextId = pointers.nextId
  BY <1>1, <1>6 DEF QueueInv, LoopState
<1>8. requests' \in [Queue!Numbers -> RequestRecord \cup {Queue!NoRequest}] /\ filled' \in [Queue!Numbers -> Nat]
  BY <1>1, <1>6 DEF LoopState
<1>9. InOrder(QueueState(0)', pointers'.tail)
  BY <1>1, <1>6, <1>7 DEF InOrder, QueueState
<1>10. QED
  BY <1>7, <1>8, <1>9 DEF QueueInv

LEMMA RequestWithdrawalKeeps ==
  ASSUME QueueInv, NEW i \in Investor, NEW amount \in QueueAmounts, Queue!RequestWithdrawal(i, amount)
  PROVE  QueueInv'
<1> DEFINE r == [investor |-> i, amount |-> amount, filledAmount |-> 0]
           id == pointers.tail + 1
<1>1. /\ amount \in Nat \ {0} /\ pointers.nextId = id /\ id <= MaxRequests
      /\ requests' = [requests EXCEPT ![id] = r]
      /\ pointers' = [pointers EXCEPT !.tail = pointers.tail + 1, !.nextId = pointers.nextId + 1]
      /\ UNCHANGED filled
  BY QueueOk DEF Queue!RequestWithdrawal, QueueInv
<1>2. r \in RequestRecord /\ r.amount > 0 /\ r.filledAmount = 0
  BY <1>1 DEF RequestRecord
<1> HIDE DEF r
<1>3. /\ pointers.head \in Nat /\ pointers.tail \in Nat /\ id \in Queue!Numbers
      /\ pointers' \in [head : Nat, tail : 0 .. MaxRequests, nextId : Nat]
      /\ pointers'.head = pointers.head /\ pointers'.tail = id /\ pointers'.nextId = id + 1
  <2>1. pointers \in [head : Nat, tail : 0 .. MaxRequests, nextId : Nat]
    BY DEF QueueInv
  <2>2. pointers.head \in Nat /\ pointers.tail \in Nat /\ pointers.nextId \in Nat /\ pointers.nextId = pointers.tail + 1
    BY <1>1, <2>1
  <2>3. id \in 0 .. MaxRequests /\ pointers.nextId + 1 \in Nat
    BY <1>1, <2>2, QueueOk
  <2>4. pointers' = [pointers EXCEPT !.tail = id, !.nextId = id + 1]
    BY <1>1
  <2> HIDE DEF id
  <2>5. id + 1 \in Nat
    BY <2>3
  <2>6. QED
    BY <2>1, <2>2, <2>3, <2>4, <2>5 DEF Queue!Numbers
<1>4. /\ requests' \in [Queue!Numbers -> RequestRecord \cup {Queue!NoRequest}] /\ requests'[id] = r
      /\ \A x \in Queue!Numbers \ {id} : requests'[x] = requests[x]
  BY <1>1, <1>2, <1>3 DEF QueueInv
<1>5. /\ pointers.head <= pointers.tail
      /\ \A x \in Queue!Numbers :
           /\ (x < pointers.head \/ x > pointers.tail) => requests[x] = Queue!NoRequest
           /\ x > pointers.head => filled[x] = 0
           /\ requests[x] # Queue!NoRequest => filled[x] = requests[x].filledAmount /\ filled[x] < requests[x].amount
  BY DEF QueueInv, InOrder, QueueState
<1>6. ASSUME NEW x \in Queue!Numbers
      PROVE  /\ (x < pointers.head \/ x > id) => requests'[x] = Queue!NoRequest
             /\ x > pointers.head => filled'[x] = 0
             /\ requests'[x] # Queue!NoRequest => filled'[x] = requests'[x].filledAmount /\ filled'[x] < requests'[x].amount
  <2>1. x \in Nat
    BY DEF Queue!Numbers
  <2>2. CASE x = id
    BY <1>1, <1>2, <1>3, <1>4, <1>5, <2>2
  <2>3. CASE x # id
    BY <1>1, <1>3, <1>4, <1>5, <2>1, <2>3
  <2>4. QED
    BY <2>2, <2>3
<1>7. pointers'.head <= pointers'.tail
  BY <1>3, <1>5
<1>8. InOrder(QueueState(0)', pointers'.tail)
  BY <1>3, <1>6, <1>7 DEF InOrder, QueueState
<1>9. filled' \in [Queue!Numbers -> Nat] /\ pointers'.nextId = pointers'.tail + 1
  BY <1>1, <1>3 DEF QueueInv
<1>10. QED
  BY <1>3, <1>4, <1>8, <1>9 DEF QueueInv

LEMMA CancelRequestKeeps ==
  ASSUME QueueInv, NEW i \in Investor, NEW id \in Queue!Numbers, Queue!CancelRequest(i, id)
  PROVE  QueueInv'
<1>1. requests' = [requests EXCEPT ![id] = Queue!NoRequest] /\ UNCHANGED <<pointers, filled>>
  BY DEF Queue!CancelRequest
<1>2. /\ requests' \in [Queue!Numbers -> RequestRecord \cup {Queue!NoRequest}] /\ requests'[id] = Queue!NoRequest
      /\ \A x \in Queue!Numbers \ {id} : requests'[x] = requests[x]
  BY <1>1 DEF QueueInv
<1>3. InOrder(QueueState(0)', pointers'.tail)
  BY <1>1, <1>2 DEF QueueInv, InOrder, QueueState
<1>4. QED
  BY <1>1, <1>2, <1>3 DEF QueueInv

LEMMA QueueStarts ==
  ASSUME Queue!Init
  PROVE  QueueInv
<1>1. /\ pointers = [head |-> 0, tail |-> 0, nextId |-> 1] /\ requests = [id \in Queue!Numbers |-> Queue!NoRequest]
      /\ filled = [id \in Queue!Numbers |-> 0] /\ 0 \in 0 .. MaxRequests
  BY QueueOk DEF Queue!Init
<1>2. /\ pointers \in [head : Nat, tail : 0 .. MaxRequests, nextId : Nat] /\ pointers.nextId = pointers.tail + 1
      /\ requests \in [Queue!Numbers -> RequestRecord \cup {Queue!NoRequest}] /\ filled \in [Queue!Numbers -> Nat]
  BY <1>1
<1>3. InOrder(QueueState(0), pointers.tail)
  BY <1>1 DEF InOrder, QueueState
<1>4. QED
  BY <1>2, <1>3 DEF QueueInv

LEMMA QueueKeeps ==
  ASSUME QueueInv, QueueStep
  PROVE  QueueInv'
BY RequestWithdrawalKeeps, CancelRequestKeeps, ProcessQueueKeeps DEF QueueStep, Queue!Next

LEMMA QueueClaims ==
  ASSUME QueueInv
  PROVE  Queue!ServedInOrder
<1>1. /\ pointers.head \in Nat /\ pointers.tail \in Nat /\ MaxRequests \in Nat /\ pointers.head <= pointers.tail
      /\ \A id \in Queue!Numbers :
           /\ (id < pointers.head \/ id > pointers.tail) => requests[id] = Queue!NoRequest
           /\ id > pointers.head => filled[id] = 0
           /\ requests[id] # Queue!NoRequest => filled[id] = requests[id].filledAmount /\ filled[id] < requests[id].amount
  BY QueueOk DEF QueueInv, InOrder, QueueState
<1>2. ASSUME NEW id \in Queue!Numbers, requests[id] # Queue!NoRequest
      PROVE  /\ filled[id] = requests[id].filledAmount /\ filled[id] < requests[id].amount
             /\ pointers.head <= id /\ id <= pointers.tail
             /\ \A later \in id + 1 .. MaxRequests : filled[later] = 0
  <2>1. id \in Nat /\ \A later \in id + 1 .. MaxRequests : later \in Queue!Numbers /\ later > id
    BY <1>1 DEF Queue!Numbers
  <2>2. pointers.head <= id /\ id <= pointers.tail
    BY <1>1, <1>2, <2>1
  <2>3. ASSUME NEW later \in id + 1 .. MaxRequests PROVE filled[later] = 0
    <3>1. later \in Queue!Numbers /\ later > pointers.head
      BY <1>1, <2>1, <2>2
    <3>2. QED
      BY <1>1, <3>1
  <2>4. QED
    BY <1>1, <1>2, <2>2, <2>3
<1>3. QED
  BY <1>1, <1>2 DEF Queue!ServedInOrder

-----------------------------------------------------------------------------
(* price_oracle.  The exchange sort of calculate_median: what every pass   *)
(* and then all of them do to the list of prices.                          *)

(* What takes the same steps from the same start is such a run.            *)
LEMMA RunIs ==
  ASSUME NEW n \in Nat, NEW X, NEW b \in X, NEW step \in [1 .. n -> [X -> X]], NEW H,
         H = [i \in 0 .. n |-> H[i]], H[0] = b,
         \A i \in 1 .. n : H[i - 1] \in X => H[i] = step[i][H[i - 1]]
  PROVE  RunOf(H, X, b, step, n)
<1> DEFINE G == {m \in Nat : m <= n => H[m] \in X}
<1>1. 0 \in G
  OBVIOUS
<1>2. ASSUME NEW m \in Nat, m \in G PROVE m + 1 \in G
  <2>1. SUFFICES ASSUME m + 1 <= n PROVE H[m + 1] \in X
    OBVIOUS
  <2>2. m + 1 \in 1 .. n /\ H[m] \in X /\ (m + 1) - 1 = m
    BY <1>2, <2>1
  <2>3. H[m + 1] = step[m + 1][H[m]]
    BY <2>2
  <2>4. QED
    BY <2>2, <2>3
<1>3. Nat \subseteq G
  <2>1. \A m \in Nat : m \in G => m + 1 \in G
    BY <1>2
  <2> HIDE DEF G
  <2>2. QED
    BY <1>1, <2>1, NumberInduction
<1>4. \A m \in 0 .. n : H[m] \in X
  BY <1>3
<1>5. H \in [0 .. n -> X]
  BY <1>4
<1>6. \A i \in 1 .. n : H[i] = step[i][H[i - 1]]
  <2>1. \A i \in 1 .. n : i - 1 \in 0 .. n
    OBVIOUS
  <2>2. QED
    BY <1>4, <2>1
<1>7. QED
  BY <1>5, <1>6 DEF RunOf

Lists(n) == [1 .. n -> Int]

(* u holds what t does, at other places.                                   *)
Located(t, u, n) ==
  \E r \in [1 .. n -> 1 .. n] :
    /\ \A x, y \in 1 .. n : r[x] = r[y] => x = y
    /\ \A x \in 1 .. n : u[r[x]] = t[x]

LEMMA LocatedSame ==
  ASSUME NEW n, NEW t
  PROVE  Located(t, t, n)
<1> DEFINE r == [x \in 1 .. n |-> x]
<1>1. r \in [1 .. n -> 1 .. n] /\ (\A x, y \in 1 .. n : r[x] = r[y] => x = y) /\ \A x \in 1 .. n : t[r[x]] = t[x]
  OBVIOUS
<1> HIDE DEF r
<1>2. QED
  BY <1>1 DEF Located

LEMMA LocatedFurther ==
  ASSUME NEW n, NEW t, NEW u, NEW v, Located(t, u, n), Located(u, v, n)
  PROVE  Located(t, v, n)
<1>1. PICK p \in [1 .. n -> 1 .. n] :
        (\A x, y \in 1 .. n : p[x] = p[y] => x = y) /\ \A x \in 1 .. n : u[p[x]] = t[x]
  BY DEF Located
<1>2. PICK q \in [1 .. n -> 1 .. n] :
        (\A x, y \in 1 .. n : q[x] = q[y] => x = y) /\ \A x \in 1 .. n : v[q[x]] = u[x]
  BY DEF Located
<1> DEFINE r == [x \in 1 .. n |-> q[p[x]]]
<1>3. r \in [1 .. n -> 1 .. n] /\ \A x \in 1 .. n : r[x] = q[p[x]] /\ p[x] \in 1 .. n
  BY <1>1, <1>2
<1> HIDE DEF r
<1>4. \A x, y \in 1 .. n : r[x] = r[y] => x = y
  BY <1>1, <1>2, <1>3
<1>5. ASSUME NEW x \in 1 .. n PROVE v[r[x]] = t[x]
  <2>1. p[x] \in 1 .. n /\ r[x] = q[p[x]]
    BY <1>3
  <2>2. v[q[p[x]]] = u[p[x]] /\ u[p[x]] = t[x]
    BY <1>1, <1>2, <2>1
  <2>3. QED
    BY <2>1, <2>2
<1>6. QED
  BY <1>3, <1>4, <1>5 DEF Located

LEMMA ExchangedIs ==
  ASSUME NEW n \in Nat, NEW t \in Lists(n), NEW i \in 1 .. n, NEW j \in 1 .. n
  PROVE  LET u == Oracle!Exchanged(t, i, j)
         IN /\ u \in Lists(n) /\ Located(t, u, n)
            /\ u[i] <= u[j] /\ u[i] <= t[i]
            /\ t[j] < t[i] => u[i] = t[j] /\ u[j] = t[i]
            /\ ~(t[j] < t[i]) => u = t
            /\ \A x \in 1 .. n \ {i, j} : u[x] = t[x]
<1> DEFINE u == Oracle!Exchanged(t, i, j)
<1>1. t[i] \in Int /\ t[j] \in Int
  BY DEF Lists
<1>2. CASE ~(t[j] < t[i])
  <2>1. u = t
    BY <1>2 DEF Oracle!Exchanged
  <2>2. t[i] <= t[j]
    BY <1>1, <1>2
  <2>3. QED
    BY <1>1, <1>2, <2>1, <2>2, LocatedSame
<1>3. CASE t[j] < t[i]
  <2>1. u = [t EXCEPT ![i] = t[j], ![j] = t[i]] /\ i # j
    BY <1>1, <1>3 DEF Oracle!Exchanged
  <2> HIDE DEF u
  <2>2. u \in Lists(n) /\ u[i] = t[j] /\ u[j] = t[i] /\ \A x \in 1 .. n \ {i, j} : u[x] = t[x]
    BY <1>1, <2>1 DEF Lists
  <2>3. Located(t, u, n)
    <3> DEFINE r == [x \in 1 .. n |-> IF x = i THEN j ELSE IF x = j THEN i ELSE x]
    <3>1. /\ r \in [1 .. n -> 1 .. n] /\ (\A x, y \in 1 .. n : r[x] = r[y] => x = y)
          /\ \A x \in 1 .. n : u[r[x]] = t[x]
      BY <2>1, <2>2
    <3> HIDE DEF r
    <3>2. QED
      BY <3>1 DEF Located
  <2>4. QED
    BY <1>1, <1>3, <2>2, <2>3 DEF u
<1>4. QED
  BY <1>2, <1>3

(* The pass for i has come to j.                                           *)
Passed(t, u, i, j, n) ==
  /\ u \in Lists(n) /\ Located(t, u, n)
  /\ \A x \in 1 .. n : x < i => u[x] = t[x]
  /\ \A x \in 1 .. n : x >= i /\ x <= j => u[i] <= u[x]
  /\ \A x \in 1 .. n : x >= i => \E z \in 1 .. n : z >= i /\ u[x] = t[z]

Exchanges(F, t, i, n) == F = [j \in 0 .. n |-> IF j < i THEN t ELSE Oracle!Exchanged(F[j - 1], i, j)]

LEMMA ExchangesExist ==
  ASSUME NEW n \in Nat, NEW t \in Lists(n), NEW i \in 1 .. n
  PROVE  \E F : Exchanges(F, t, i, n)
<1> DEFINE step == [j \in 1 .. n |-> [u \in Lists(n) |-> IF j < i THEN t ELSE Oracle!Exchanged(u, i, j)]]
<1>1. \A j \in 1 .. n : \A u \in Lists(n) : Oracle!Exchanged(u, i, j) \in Lists(n)
  BY ExchangedIs
<1>2. step \in [1 .. n -> [Lists(n) -> Lists(n)]]
  BY <1>1
<1>3. \A j \in 1 .. n : \A u \in Lists(n) : step[j][u] = IF j < i THEN t ELSE Oracle!Exchanged(u, i, j)
  OBVIOUS
<1> HIDE DEF step
<1>4. PICK F : RunOf(F, Lists(n), t, step, n)
  BY <1>2, IterationExists
<1>5. F \in [0 .. n -> Lists(n)] /\ F[0] = t /\ \A j \in 1 .. n : F[j] = step[j][F[j - 1]]
  BY <1>4 DEF RunOf
<1>6. ASSUME NEW j \in 0 .. n PROVE F[j] = IF j < i THEN t ELSE Oracle!Exchanged(F[j - 1], i, j)
  <2>1. CASE j = 0
    BY <1>5, <2>1
  <2>2. CASE j # 0
    <3>1. j \in 1 .. n /\ j - 1 \in 0 .. n
      BY <2>2
    <3>2. QED
      BY <3>1, <1>3, <1>5
  <2>3. QED
    BY <2>1, <2>2
<1>7. F = [j \in 0 .. n |-> IF j < i THEN t ELSE Oracle!Exchanged(F[j - 1], i, j)]
  <2>1. F = [j \in 0 .. n |-> F[j]]
    BY <1>5
  <2>2. QED
    BY <1>6, <2>1
<1>8. QED
  BY <1>5, <1>7 DEF Exchanges

LEMMA OneExchange ==
  ASSUME NEW n \in Nat, NEW i \in 1 .. n, NEW j \in i .. n, NEW t \in Lists(n), NEW u,
         Passed(t, u, i, j - 1, n)
  PROVE  Passed(t, Oracle!Exchanged(u, i, j), i, j, n)
<1> DEFINE v == Oracle!Exchanged(u, i, j)
<1>1. u \in Lists(n) /\ Located(t, u, n) /\ j \in 1 .. n
  BY DEF Passed
<1>2. /\ v \in Lists(n) /\ Located(u, v, n)
      /\ v[i] <= v[j] /\ v[i] <= u[i]
      /\ u[j] < u[i] => v[i] = u[j] /\ v[j] = u[i]
      /\ ~(u[j] < u[i]) => v = u
      /\ \A x \in 1 .. n \ {i, j} : v[x] = u[x]
  BY <1>1, ExchangedIs
<1> HIDE DEF v
<1>3. Located(t, v, n)
  BY <1>1, <1>2, LocatedFurther
<1>4. ASSUME NEW x \in 1 .. n, x < i PROVE v[x] = t[x]
  BY <1>2, <1>4 DEF Passed
<1>5. ASSUME NEW x \in 1 .. n, x >= i, x <= j PROVE v[i] <= v[x]
  <2>1. v[i] \in Int /\ u[i] \in Int /\ u[x] \in Int /\ v[x] \in Int
    BY <1>1, <1>2 DEF Lists
  <2>2. CASE x = i \/ x = j
    BY <1>2, <2>1, <2>2
  <2>3. CASE x # i /\ x # j
    <3>1. x <= j - 1 /\ v[x] = u[x]
      BY <1>2, <1>5, <2>3
    <3>2. u[i] <= u[x]
      BY <1>5, <3>1 DEF Passed
    <3>3. QED
      BY <1>2, <2>1, <3>1, <3>2
  <2>4. QED
    BY <2>2, <2>3
<1>6. ASSUME NEW x \in 1 .. n, x >= i PROVE \E z \in 1 .. n : z >= i /\ v[x] = t[z]
  <2>1. PICK y \in 1 .. n : y >= i /\ v[x] = u[y]
    BY <1>1, <1>2, <1>6
  <2>2. QED
    BY <2>1 DEF Passed
<1>7. QED
  BY <1>2, <1>3, <1>4, <1>5, <1>6 DEF Passed, v

LEMMA PassIs ==
  ASSUME NEW n \in Nat, NEW t \in Lists(n), NEW i \in 1 .. n
  PROVE  Passed(t, Oracle!Pass(t, i, n), i, n, n)
<1> DEFINE F == CHOOSE F : Exchanges(F, t, i, n)
           G == {j \in Nat : j <= n => Passed(t, F[j], i, j, n)}
<1>1. Exchanges(F, t, i, n)
  BY ExchangesExist, Zenon
<1>2. Oracle!Pass(t, i, n) = F[n]
  BY DEF Oracle!Pass, Exchanges
<1> HIDE DEF F
<1>3. \A j \in 0 .. n : F[j] = IF j < i THEN t ELSE Oracle!Exchanged(F[j - 1], i, j)
  BY <1>1 DEF Exchanges
<1>4. \A j \in Nat : j < i => Passed(t, t, i, j, n)
  BY LocatedSame DEF Passed
<1>5. 0 \in G
  BY <1>3, <1>4
<1>6. ASSUME NEW j \in Nat, j \in G PROVE j + 1 \in G
  <2>1. SUFFICES ASSUME j + 1 <= n PROVE Passed(t, F[j + 1], i, j + 1, n)
    OBVIOUS
  <2>2. Passed(t, F[j], i, j, n) /\ j + 1 \in 0 .. n /\ (j + 1) - 1 = j
    BY <1>6, <2>1
  <2>3. CASE j + 1 < i
    BY <1>3, <1>4, <2>2, <2>3
  <2>4. CASE ~(j + 1 < i)
    <3>1. j + 1 \in i .. n /\ F[j + 1] = Oracle!Exchanged(F[j], i, j + 1)
      BY <1>3, <2>1, <2>2, <2>4
    <3>2. QED
      BY <2>2, <3>1, OneExchange
  <2>5. QED
    BY <2>3, <2>4
<1>7. n \in G
  <2>1. \A j \in Nat : j \in G => j + 1 \in G
    BY <1>6
  <2> HIDE DEF G
  <2>2. QED
    BY <1>5, <2>1, NumberInduction
<1>8. QED
  BY <1>2, <1>7

(* After the passes up to i, no later value is less than one of the first. *)
Passes(F, s, n) == F = [i \in 0 .. n |-> IF i = 0 THEN s ELSE Oracle!Pass(F[i - 1], i, n)]
SortedTo(s, u, i, n) ==
  /\ u \in Lists(n) /\ Located(s, u, n)
  /\ \A x, y \in 1 .. n : x <= i /\ x <= y => u[x] <= u[y]

LEMMA PassesExist ==
  ASSUME NEW n \in Nat, NEW s \in Lists(n)
  PROVE  \E F : Passes(F, s, n)
<1> DEFINE step == [i \in 1 .. n |-> [u \in Lists(n) |-> Oracle!Pass(u, i, n)]]
<1>1. \A i \in 1 .. n : \A u \in Lists(n) : Oracle!Pass(u, i, n) \in Lists(n)
  BY PassIs DEF Passed
<1>2. step \in [1 .. n -> [Lists(n) -> Lists(n)]]
  BY <1>1
<1>3. \A i \in 1 .. n : \A u \in Lists(n) : step[i][u] = Oracle!Pass(u, i, n)
  OBVIOUS
<1> HIDE DEF step
<1>4. PICK F : RunOf(F, Lists(n), s, step, n)
  BY <1>2, IterationExists
<1>5. F \in [0 .. n -> Lists(n)] /\ F[0] = s /\ \A i \in 1 .. n : F[i] = step[i][F[i - 1]]
  BY <1>4 DEF RunOf
<1>6. ASSUME NEW i \in 0 .. n PROVE F[i] = IF i = 0 THEN s ELSE Oracle!Pass(F[i - 1], i, n)
  <2>1. CASE i = 0
    BY <1>5, <2>1
  <2>2. CASE i # 0
    <3>1. i \in 1 .. n /\ i - 1 \in 0 .. n
      BY <2>2
    <3>2. QED
      BY <2>2, <3>1, <1>3, <1>5
  <2>3. QED
    BY <2>1, <2>2
<1>7. F = [i \in 0 .. n |-> IF i = 0 THEN s ELSE Oracle!Pass(F[i - 1], i, n)]
  <2>1. F = [i \in 0 .. n |-> F[i]]
    BY <1>5
  <2>2. QED
    BY <1>6, <2>1
<1>8. QED
  BY <1>5, <1>7 DEF Passes

LEMMA OnePass ==
  ASSUME NEW n \in Nat, NEW i \in 1 .. n, NEW s \in Lists(n), NEW t, SortedTo(s, t, i - 1, n)
  PROVE  SortedTo(s, Oracle!Pass(t, i, n), i, n)
<1> DEFINE u == Oracle!Pass(t, i, n)
<1>1. t \in Lists(n) /\ Located(s, t, n) /\ \A x, y \in 1 .. n : x <= i - 1 /\ x <= y => t[x] <= t[y]
  BY DEF SortedTo
<1>2. Passed(t, u, i, n, n)
  BY <1>1, PassIs
<1> HIDE DEF u
<1>3. /\ u \in Lists(n) /\ Located(t, u, n)
      /\ \A x \in 1 .. n : x < i => u[x] = t[x]
      /\ \A x \in 1 .. n : x >= i /\ x <= n => u[i] <= u[x]
      /\ \A x \in 1 .. n : x >= i => \E z \in 1 .. n : z >= i /\ u[x] = t[z]
  BY <1>2 DEF Passed
<1>4. Located(s, u, n)
  BY <1>1, <1>3, LocatedFurther
<1>5. ASSUME NEW x \in 1 .. n, NEW y \in 1 .. n, x <= i, x <= y PROVE u[x] <= u[y]
  <2>1. CASE x = i
    BY <1>3, <1>5, <2>1
  <2>2. CASE x # i /\ y < i
    BY <1>1, <1>3, <1>5, <2>2
  <2>3. CASE x # i /\ y >= i
    <3>1. PICK z \in 1 .. n : z >= i /\ u[y] = t[z]
      BY <1>3, <2>3
    <3>2. u[x] = t[x] /\ t[x] <= t[z]
      BY <1>1, <1>3, <1>5, <2>3, <3>1
    <3>3. QED
      BY <3>1, <3>2
  <2>4. QED
    BY <2>1, <2>2, <2>3
<1>6. QED
  BY <1>3, <1>4, <1>5 DEF SortedTo, u

LEMMA SortedIs ==
  ASSUME NEW n \in Nat, NEW s \in Lists(n), Len(s) = n
  PROVE  SortedTo(s, Oracle!Sorted(s), n, n)
<1> DEFINE F == CHOOSE F : Passes(F, s, n)
           G == {i \in Nat : i <= n => SortedTo(s, F[i], i, n)}
<1>1. Passes(F, s, n)
  BY PassesExist, Zenon
<1>2. Oracle!Sorted(s) = F[n]
  BY DEF Oracle!Sorted, Passes
<1> HIDE DEF F
<1>3. F[0] = s /\ \A i \in 1 .. n : F[i] = Oracle!Pass(F[i - 1], i, n)
  BY <1>1 DEF Passes
<1>4. 0 \in G
  BY <1>3, LocatedSame DEF SortedTo
<1>5. ASSUME NEW i \in Nat, i \in G PROVE i + 1 \in G
  <2>1. SUFFICES ASSUME i + 1 <= n PROVE SortedTo(s, F[i + 1], i + 1, n)
    OBVIOUS
  <2>2. SortedTo(s, F[i], i, n) /\ i + 1 \in 1 .. n /\ (i + 1) - 1 = i
    BY <1>5, <2>1
  <2>3. F[i + 1] = Oracle!Pass(F[i], i + 1, n)
    BY <1>3, <2>2
  <2>4. QED
    BY <2>2, <2>3, OnePass
<1>6. n \in G
  <2>1. \A i \in Nat : i \in G => i + 1 \in G
    BY <1>5
  <2> HIDE DEF G
  <2>2. QED
    BY <1>4, <2>1, NumberInduction
<1>7. QED
  BY <1>2, <1>6

(* Of values found again at places in B there are no more than B has.      *)
LEMMA CountedThere ==
  ASSUME NEW n \in Nat, NEW s, NEW u, Located(s, u, n), NEW A \in SUBSET (1 .. n), NEW B \in SUBSET (1 .. n),
         \A x \in A : \A z \in 1 .. n : u[z] = s[x] => z \in B
  PROVE  Cardinality(A) \in Nat /\ Cardinality(A) <= Cardinality(B)
<1>1. PICK r \in [1 .. n -> 1 .. n] :
        (\A x, y \in 1 .. n : r[x] = r[y] => x = y) /\ \A x \in 1 .. n : u[r[x]] = s[x]
  BY DEF Located
<1> DEFINE f == [x \in A |-> r[x]]
<1>2. f \in [A -> B] /\ \A x, y \in A : f[x] = f[y] => x = y
  BY <1>1
<1> HIDE DEF f
<1>3. f \in Injection(A, B)
  BY <1>2 DEF Injection, IsInjective
<1>4. IsFiniteSet(1 .. n) /\ IsFiniteSet(A) /\ IsFiniteSet(B)
  <2>1. 1 \in Int /\ n \in Int
    OBVIOUS
  <2>2. IsFiniteSet(1 .. n)
    BY <2>1, FS_Interval
  <2>3. QED
    BY <2>2, FS_Subset
<1>5. QED
  BY <1>3, <1>4, FS_Injection, FS_CardinalityType

LEMMA MedianIs ==
  ASSUME NEW n \in Nat \ {0}, NEW s \in Lists(n), Len(s) = n
  PROVE  LET m == Oracle!CalculateMedian(s)
         IN /\ m \in Int
            /\ 2 * Cardinality({x \in 1 .. n : s[x] < m}) <= n
            /\ 2 * Cardinality({x \in 1 .. n : s[x] > m}) <= n
<1> DEFINE u == Oracle!Sorted(s)
           h == n \div 2
           m == Oracle!CalculateMedian(s)
<1>1. u \in Lists(n) /\ Located(s, u, n) /\ \A x, y \in 1 .. n : x <= y => u[x] <= u[y]
  BY SortedIs DEF SortedTo
<1>2. m = IF n % 2 = 1 THEN u[h + 1] ELSE (u[h] + u[h + 1]) \div 2
  BY DEF Oracle!CalculateMedian
<1> HIDE DEF u
<1>3. h \in Nat /\ (n = 2 * h \/ n = 2 * h + 1) /\ (n % 2 = 1 <=> n = 2 * h + 1) /\ (n = 2 * h => h >= 1)
  OBVIOUS
<1>4. \A x \in 1 .. n : u[x] \in Int /\ s[x] \in Int
  BY <1>1 DEF Lists
<1> HIDE DEF h, m
<1>5. /\ m \in Int
      /\ \A z \in 1 .. n : (u[z] < m => z <= h) /\ (u[z] > m => z >= n - h + 1)
  <2>1. CASE n = 2 * h + 1
    <3>1. m = u[h + 1] /\ h + 1 \in 1 .. n
      BY <1>2, <1>3, <2>1
    <3>2. ASSUME NEW z \in 1 .. n PROVE (u[z] < m => z <= h) /\ (u[z] > m => z >= n - h + 1)
      <4>1. u[z] \in Int /\ u[h + 1] \in Int /\ (h + 1 <= z => u[h + 1] <= u[z]) /\ (z <= h + 1 => u[z] <= u[h + 1])
        BY <1>1, <1>4, <3>1
      <4>2. QED
        BY <1>3, <2>1, <3>1, <4>1
    <3>3. QED
      BY <1>4, <3>1, <3>2
  <2>2. CASE n = 2 * h
    <3>1. m = (u[h] + u[h + 1]) \div 2 /\ h \in 1 .. n /\ h + 1 \in 1 .. n
      BY <1>2, <1>3, <2>2
    <3>2. u[h] \in Int /\ u[h + 1] \in Int /\ u[h] <= u[h + 1]
      BY <1>1, <1>3, <1>4, <3>1
    <3>3. m \in Int /\ u[h] <= m /\ m <= u[h + 1]
      BY <3>1, <3>2
    <3>4. ASSUME NEW z \in 1 .. n PROVE (u[z] < m => z <= h) /\ (u[z] > m => z >= n - h + 1)
      <4>1. u[z] \in Int /\ (h + 1 <= z => u[h + 1] <= u[z]) /\ (z <= h => u[z] <= u[h])
        BY <1>1, <1>4, <3>1
      <4>2. QED
        BY <1>3, <2>2, <3>2, <3>3, <4>1
    <3>5. QED
      BY <3>3, <3>4
  <2>3. QED
    BY <1>3, <2>1, <2>2
<1>6. Cardinality({x \in 1 .. n : s[x] < m}) \in Nat /\ Cardinality({x \in 1 .. n : s[x] < m}) <= h
  <2> DEFINE A == {x \in 1 .. n : s[x] < m}
             B == 1 .. h
  <2>1. B \in SUBSET (1 .. n) /\ A \in SUBSET (1 .. n)
    BY <1>3
  <2>2. \A x \in A : \A z \in 1 .. n : u[z] = s[x] => z \in B
    BY <1>3, <1>5
  <2>3. Cardinality(B) = h
    BY <1>3, FS_Interval
  <2> HIDE DEF A, B
  <2>4. Cardinality(A) \in Nat /\ Cardinality(A) <= Cardinality(B)
    BY <1>1, <2>1, <2>2, CountedThere
  <2>5. QED
    BY <2>3, <2>4 DEF A
<1>7. Cardinality({x \in 1 .. n : s[x] > m}) \in Nat /\ Cardinality({x \in 1 .. n : s[x] > m}) <= h
  <2> DEFINE A == {x \in 1 .. n : s[x] > m}
             B == n - h + 1 .. n
  <2>1. B \in SUBSET (1 .. n) /\ A \in SUBSET (1 .. n)
    BY <1>3
  <2>2. \A x \in A : \A z \in 1 .. n : u[z] = s[x] => z \in B
    BY <1>3, <1>5
  <2>3. Cardinality(B) = h
    <3>1. n - h + 1 \in Int /\ n \in Int
      BY <1>3
    <3>2. Cardinality(B) = IF n - h + 1 > n THEN 0 ELSE n - (n - h + 1) + 1
      BY <3>1, FS_Interval
    <3>3. QED
      BY <1>3, <3>2
  <2> HIDE DEF A, B
  <2>4. Cardinality(A) \in Nat /\ Cardinality(A) <= Cardinality(B)
    BY <1>1, <2>1, <2>2, CountedThere
  <2>5. QED
    BY <2>3, <2>4 DEF A
<1>8. QED
  BY <1>3, <1>5, <1>6, <1>7 DEF m

-----------------------------------------------------------------------------
(* The keys of a pair, and what get_price answers.                         *)

Quote == [price : Int, time : Nat \cup {-1}]
PairRecord ==
  [quotes : [Feeders -> Quote], order : Seq(Feeders), ring : [slots : Seq(Quote), next : Nat],
   limit : ChangeLimits \cup {-1}, peg : Pegs \cup {Oracle!NoPeg}, flagged : BOOLEAN, staleness : Nat, fallback : Nat]

OracleTypes ==
  /\ oracleAdmin \in Admins /\ oracleUpgrade \in Nat \cup {-1}
  /\ feeders \in SUBSET Feeders /\ minFresh \in Nat \ {0}
  /\ pairs \in [Oracle!Pairs -> PairRecord]
  /\ oraclePaused \in BOOLEAN
  /\ published \in [Oracle!Pairs -> Seq(Quote)]
  /\ oracleNow \in Nat

Young(k) == {f \in Feeders : oracleNow - k.quotes[f].time <= k.staleness}

Keeping(F, k, n) ==
  F = [i \in 0 .. n |->
         IF i = 0 THEN <<>>
         ELSE IF oracleNow - k.quotes[k.order[i]].time <= k.staleness THEN Append(F[i - 1], k.order[i])
         ELSE F[i - 1]]

LEMMA FreshIs ==
  ASSUME NEW k \in PairRecord
  PROVE  Oracle!Fresh(k) \in Seq(Young(k))
<1> DEFINE n == Len(k.order)
           X == Seq(Young(k))
           take(i, q) == IF oracleNow - k.quotes[k.order[i]].time <= k.staleness THEN Append(q, k.order[i]) ELSE q
           step == [i \in 1 .. n |-> [q \in X |-> take(i, q)]]
           K == CHOOSE K : Keeping(K, k, n)
<1>1. n \in Nat /\ \A i \in 1 .. n : k.order[i] \in Feeders
  <2>1. k.order \in Seq(Feeders)
    BY DEF PairRecord
  <2>2. QED
    BY <2>1
<1>2. \A i \in 1 .. n : \A q \in X : take(i, q) \in X
  <2>1. SUFFICES ASSUME NEW i \in 1 .. n, NEW q \in X PROVE take(i, q) \in X
    OBVIOUS
  <2>2. CASE oracleNow - k.quotes[k.order[i]].time <= k.staleness
    <3>1. k.order[i] \in Young(k)
      BY <1>1, <2>2 DEF Young
    <3> HIDE DEF n
    <3>2. QED
      BY <2>2, <3>1
  <2>3. CASE ~(oracleNow - k.quotes[k.order[i]].time <= k.staleness)
    BY <2>3
  <2>4. QED
    BY <2>2, <2>3
<1>3. <<>> \in X
  OBVIOUS
<1> HIDE DEF n, X, take
<1>4. step \in [1 .. n -> [X -> X]] /\ \A i \in 1 .. n : \A q \in X : step[i][q] = take(i, q)
  BY <1>2
<1> HIDE DEF step
<1>5. \E H : Keeping(H, k, n)
  <2>1. PICK H : RunOf(H, X, <<>>, step, n)
    BY <1>1, <1>3, <1>4, IterationExists
  <2>2. H \in [0 .. n -> X] /\ H[0] = <<>> /\ \A i \in 1 .. n : H[i] = step[i][H[i - 1]]
    BY <2>1 DEF RunOf
  <2>3. ASSUME NEW i \in 0 .. n PROVE H[i] = IF i = 0 THEN <<>> ELSE take(i, H[i - 1])
    <3>1. CASE i = 0
      BY <2>2, <3>1
    <3>2. CASE i # 0
      <4>1. i \in 1 .. n /\ i - 1 \in 0 .. n
        BY <1>1, <3>2
      <4>2. QED
        BY <3>2, <4>1, <1>4, <2>2
    <3>3. QED
      BY <3>1, <3>2
  <2>4. H = [i \in 0 .. n |-> IF i = 0 THEN <<>> ELSE take(i, H[i - 1])]
    <3>1. H = [i \in 0 .. n |-> H[i]]
      BY <2>2
    <3>2. QED
      BY <2>3, <3>1
  <2>5. QED
    BY <2>4 DEF Keeping, take
<1>6. Keeping(K, k, n)
  BY <1>5, Zenon
<1>7. Oracle!Fresh(k) = K[n]
  BY DEF Oracle!Fresh, Keeping, n
<1> HIDE DEF K
<1>8. /\ K = [i \in 0 .. n |-> K[i]] /\ K[0] = <<>>
      /\ \A i \in 1 .. n : K[i] = take(i, K[i - 1])
  <2>1. K = [i \in 0 .. n |-> IF i = 0 THEN <<>> ELSE take(i, K[i - 1])]
    BY <1>6 DEF Keeping, take
  <2>2. \A i \in 0 .. n : K[i] = IF i = 0 THEN <<>> ELSE take(i, K[i - 1])
    BY <2>1
  <2>3. K[0] = <<>> /\ \A i \in 1 .. n : K[i] = take(i, K[i - 1])
    BY <1>1, <2>2
  <2>4. QED
    BY <2>1, <2>3
<1>9. RunOf(K, X, <<>>, step, n)
  <2>1. \A i \in 1 .. n : K[i - 1] \in X => K[i] = step[i][K[i - 1]]
    BY <1>4, <1>8
  <2>2. QED
    BY <1>1, <1>3, <1>4, <1>8, <2>1, RunIs
<1>10. K[n] \in X
  BY <1>1, <1>9 DEF RunOf
<1>11. QED
  BY <1>7, <1>10 DEF X

LEMMA OldestIs ==
  ASSUME NEW times \in SUBSET (Nat \cup {-1}), times # {}
  PROVE  Oracle!Oldest(times) \in times
<1> DEFINE T == {t + 1 : t \in times}
<1>1. T \in SUBSET Nat /\ T # {}
  <2>1. \A t \in times : t + 1 \in Nat
    OBVIOUS
  <2>2. PICK t : t \in times
    OBVIOUS
  <2>3. t + 1 \in T
    BY <2>2
  <2>4. QED
    BY <2>1, <2>3
<1>2. PICK n \in T : \A m \in T : n <= m
  BY <1>1, SmallestElement
<1>3. n - 1 \in times /\ \A u \in times : n - 1 <= u
  <2>1. \A u \in times : n <= u + 1 /\ u \in Int
    BY <1>2
  <2>2. PICK t \in times : n = t + 1
    BY <1>2
  <2>3. n - 1 = t
    BY <2>1, <2>2
  <2>4. QED
    BY <2>1, <2>2, <2>3
<1>4. QED
  BY <1>3 DEF Oracle!Oldest

LEMMA OracleCardinality == \A S : Oracle!Cardinality(S) = Cardinality(S)
  BY DEF Oracle!Cardinality, Cardinality, Oracle!IsFiniteSet, IsFiniteSet

MedianAnswered(k) ==
  LET fresh == Oracle!Fresh(k)   m == Oracle!GetPrice(k)
      below == {i \in DOMAIN fresh : k.quotes[fresh[i]].price < m.price}
      above == {i \in DOMAIN fresh : k.quotes[fresh[i]].price > m.price}
  IN m.ok /\ fresh # <<>> =>
       /\ 2 * Cardinality(below) <= Len(fresh) /\ 2 * Cardinality(above) <= Len(fresh)
       /\ Len(fresh) >= minFresh /\ oracleNow - m.time <= k.staleness

LEMMA GetPriceIs ==
  ASSUME NEW k \in PairRecord, minFresh \in Nat, oracleNow \in Nat
  PROVE  Oracle!GetPrice(k).price \in Int /\ MedianAnswered(k)
<1> DEFINE fresh == Oracle!Fresh(k)
           n == Len(fresh)
           s == [i \in DOMAIN fresh |-> k.quotes[fresh[i]].price]
           times == {k.quotes[fresh[i]].time : i \in DOMAIN fresh}
           m == Oracle!GetPrice(k)
           answer == [ok |-> TRUE, price |-> Oracle!CalculateMedian(s), time |-> Oracle!Oldest(times)]
<1>1. /\ k.quotes \in [Feeders -> Quote] /\ k.fallback \in Nat /\ k.staleness \in Nat
  BY DEF PairRecord
<1>2. fresh \in Seq(Young(k))
  BY FreshIs
<1>3. /\ m = IF fresh = <<>>
              THEN IF k.fallback > 0 THEN [ok |-> TRUE, price |-> k.fallback, time |-> oracleNow] ELSE Oracle!Unavailable
              ELSE IF n < minFresh THEN Oracle!Unavailable ELSE answer
  BY DEF Oracle!GetPrice
<1> HIDE DEF fresh
<1>4. n \in Nat /\ DOMAIN fresh = 1 .. n /\ (fresh # <<>> => n # 0) /\ \A i \in 1 .. n : fresh[i] \in Young(k)
  BY <1>2
<1>5. \A i \in 1 .. n : fresh[i] \in Feeders /\ oracleNow - k.quotes[fresh[i]].time <= k.staleness
  BY <1>4 DEF Young
<1>6. \A i \in 1 .. n : k.quotes[fresh[i]].price \in Int /\ k.quotes[fresh[i]].time \in Nat \cup {-1}
  BY <1>1, <1>5 DEF Quote
<1>7. CASE fresh = <<>> \/ n < minFresh
  <2>1. m.price \in Int /\ (fresh # <<>> => ~m.ok)
    BY <1>1, <1>3, <1>7 DEF Oracle!Unavailable
  <2>2. QED
    BY <2>1 DEF MedianAnswered, fresh
<1>8. CASE fresh # <<>> /\ ~(n < minFresh)
  <2>1. m.ok /\ m.price = Oracle!CalculateMedian(s) /\ m.time = Oracle!Oldest(times)
    BY <1>3, <1>8
  <2>2. s \in Lists(n) /\ Len(s) = n
    BY <1>4, <1>6 DEF Lists
  <2>3. /\ m.price \in Int
        /\ 2 * Cardinality({x \in 1 .. n : s[x] < m.price}) <= n
        /\ 2 * Cardinality({x \in 1 .. n : s[x] > m.price}) <= n
    <3>1. n \in Nat \ {0}
      BY <1>4, <1>8
    <3> HIDE DEF s, n, m
    <3>2. QED
      BY <2>1, <2>2, <3>1, MedianIs
  <2>4. oracleNow - m.time <= k.staleness
    <3>1. times \in SUBSET (Nat \cup {-1}) /\ times # {}
      BY <1>4, <1>6, <1>8
    <3>2. m.time \in times
      BY <2>1, <3>1, OldestIs
    <3>3. QED
      BY <1>4, <1>5, <3>2
  <2>5. /\ {x \in 1 .. n : s[x] < m.price} = {i \in DOMAIN fresh : k.quotes[fresh[i]].price < m.price}
        /\ {x \in 1 .. n : s[x] > m.price} = {i \in DOMAIN fresh : k.quotes[fresh[i]].price > m.price}
    BY <1>4
  <2>6. n >= minFresh
    BY <1>4, <1>8
  <2>7. QED
    BY <2>3, <2>4, <2>5, <2>6 DEF MedianAnswered, fresh
<1>9. QED
  BY <1>7, <1>8

-----------------------------------------------------------------------------
(* Conversion.                                                             *)

Powers(F, n) == F = [k \in 0 .. n |-> IF k = 0 THEN 1 ELSE 10 * F[k - 1]]

LEMMA PowerIs ==
  ASSUME NEW n \in Nat
  PROVE  Oracle!Compute10Pow(n) # Oracle!Failed => Oracle!Compute10Pow(n) \in Nat \ {0}
<1> DEFINE X == Nat \ {0}
           step == [i \in 1 .. n |-> [q \in X |-> 10 * q]]
           K == CHOOSE K : Powers(K, n)
<1>1. 1 \in X /\ step \in [1 .. n -> [X -> X]] /\ \A i \in 1 .. n : \A q \in X : step[i][q] = 10 * q
  OBVIOUS
<1> HIDE DEF X, step
<1>2. \E H : Powers(H, n)
  <2>1. PICK H : RunOf(H, X, 1, step, n)
    BY <1>1, IterationExists
  <2>2. H \in [0 .. n -> X] /\ H[0] = 1 /\ \A i \in 1 .. n : H[i] = step[i][H[i - 1]]
    BY <2>1 DEF RunOf
  <2>3. ASSUME NEW i \in 0 .. n PROVE H[i] = IF i = 0 THEN 1 ELSE 10 * H[i - 1]
    <3>1. CASE i = 0
      BY <2>2, <3>1
    <3>2. CASE i # 0
      <4>1. i \in 1 .. n /\ i - 1 \in 0 .. n
        BY <3>2
      <4>2. QED
        BY <3>2, <4>1, <1>1, <2>2
    <3>3. QED
      BY <3>1, <3>2
  <2>4. H = [i \in 0 .. n |-> IF i = 0 THEN 1 ELSE 10 * H[i - 1]]
    <3>1. H = [i \in 0 .. n |-> H[i]]
      BY <2>2
    <3>2. QED
      BY <2>3, <3>1
  <2>5. QED
    BY <2>4 DEF Powers
<1>3. Powers(K, n)
  BY <1>2, Zenon
<1>4. Oracle!Compute10Pow(n) = IF n > 10 THEN Oracle!Failed ELSE K[n]
  BY DEF Oracle!Compute10Pow, Powers
<1> HIDE DEF K
<1>5. K = [i \in 0 .. n |-> K[i]] /\ K[0] = 1 /\ \A i \in 1 .. n : K[i] = 10 * K[i - 1]
  BY <1>3 DEF Powers
<1>6. RunOf(K, X, 1, step, n)
  <2>1. \A i \in 1 .. n : K[i - 1] \in X => K[i] = step[i][K[i - 1]]
    BY <1>1, <1>5
  <2>2. QED
    BY <1>1, <1>5, <2>1, RunIs
<1>7. K[n] \in Nat \ {0}
  BY <1>6 DEF RunOf, X
<1>8. QED
  BY <1>4, <1>7

LEMMA RoundedDown == \A a \in Int : \A d \in Nat \ {0} : (a \div d) \in Int /\ (a \div d) * d <= a
  OBVIOUS

LEMMA Scaled == \A a, b \in Int : \A d \in Nat : a <= b => a * d <= b * d
  OBVIOUS

LEMMA Reordered == \A a, b, c \in Int : (a * b) * c = (a * c) * b
  OBVIOUS

LEMMA ConversionIs ==
  ASSUME NEW amount \in Int, NEW price \in Int, NEW from \in Nat, NEW to \in Nat
  PROVE  LET r == Oracle!ConvertWithDecimals(amount, price, from, to)
             scale == Oracle!Compute10Pow(Oracle!Abs(from - to))
         IN r # Oracle!Failed => IF from >= to THEN r * scale * Unit <= amount * price
                                 ELSE r * Unit <= amount * price * scale
<1> DEFINE r == Oracle!ConvertWithDecimals(amount, price, from, to)
           scale == Oracle!Compute10Pow(Oracle!Abs(from - to))
           c == Oracle!Convert(amount, price)
           whole == amount * price
           q == whole \div Unit
<1>1. SUFFICES ASSUME r # Oracle!Failed
               PROVE  IF from >= to THEN r * scale * Unit <= whole ELSE r * Unit <= whole * scale
  OBVIOUS
<1>2. c # Oracle!Failed /\ scale # Oracle!Failed /\ r = IF from >= to THEN c \div scale ELSE c * scale
  BY <1>1 DEF Oracle!ConvertWithDecimals
<1>3. Oracle!Abs(from - to) \in Nat
  BY DEF Oracle!Abs
<1>4. scale \in Nat \ {0}
  BY <1>2, <1>3, PowerIs
<1>5. Unit \in Nat \ {0} /\ whole \in Int
  BY OracleOk
<1> HIDE DEF whole, scale, r
<1>6. c = q
  BY <1>2 DEF Oracle!Convert, whole
<1>7. c \in Int /\ c * Unit <= whole
  BY <1>5, <1>6, RoundedDown
<1> HIDE DEF c
<1>8. CASE from >= to
  <2>1. r = c \div scale
    BY <1>2, <1>8
  <2>2. r \in Int /\ r * scale <= c
    BY <1>4, <1>7, <2>1, RoundedDown
  <2>3. r * scale \in Int /\ scale \in Int
    BY <1>4, <2>2
  <2>4. r * scale * Unit <= c * Unit /\ c * Unit \in Int /\ r * scale * Unit \in Int
    BY <1>5, <1>7, <2>2, <2>3, Scaled
  <2>5. r * scale * Unit <= whole
    BY <1>5, <1>7, <2>4
  <2>6. QED
    BY <1>8, <2>5
<1>9. CASE ~(from >= to)
  <2>1. r = c * scale
    BY <1>2, <1>9
  <2>2. (c * Unit) * scale <= whole * scale
    BY <1>4, <1>5, <1>7, Scaled
  <2>3. (c * scale) * Unit = (c * Unit) * scale
    BY <1>4, <1>5, <1>7, Reordered
  <2>4. r * Unit <= whole * scale
    BY <2>1, <2>2, <2>3
  <2>5. QED
    BY <1>9, <2>4
<1>10. QED
  BY <1>8, <1>9

-----------------------------------------------------------------------------
(* The ring of medians.  The j-th median published is kept in place        *)
(* Place(j), until HistoryCap more have been.                              *)

Place(j) == ((j - 1) % HistoryCap) + 1
Kept(n)  == IF n < HistoryCap THEN n ELSE HistoryCap

RingInv(ring, log) ==
  LET n == Len(log)
  IN /\ Len(ring.slots) = Kept(n)
     /\ ring.next = n % HistoryCap
     /\ \A j \in 1 .. n : j > n - HistoryCap => ring.slots[Place(j)] = log[j]
     /\ \A i, j \in 1 .. n : i < j => log[i].time < log[j].time

LEMMA RemainderOf ==
  ASSUME NEW d \in Nat \ {0}, NEW q \in Int, NEW r \in 0 .. d - 1, NEW a \in Int, a = d * q + r
  PROVE  a % d = r
<1> DEFINE p == a \div d
           e == a % d
<1>1. p \in Int /\ e \in 0 .. d - 1 /\ a = d * p + e
  OBVIOUS
<1> HIDE DEF p, e
<1>2. d * (q - p) = e - r /\ q - p \in Int
  BY <1>1
<1>3. q - p >= 1 => d * (q - p) >= d
  BY <1>1
<1>4. q - p <= -1 => d * (q - p) <= -d
  BY <1>1
<1>5. e - r < d /\ e - r > -d
  BY <1>1
<1>6. q - p = 0
  BY <1>1, <1>2, <1>3, <1>4, <1>5
<1>7. e = r
  BY <1>1, <1>2, <1>6
<1>8. QED
  BY <1>7 DEF e

(* The same, for terms that have names of their own.                       *)
LEMMA RemaindersEqual ==
  ASSUME NEW d \in Nat \ {0}, NEW p \in Int, NEW q \in Int, NEW r \in 0 .. d - 1, NEW a \in Int, NEW b \in Int,
         a - r = d * p, b - r = d * q
  PROVE  a % d = r /\ b % d = r
<1>1. a = d * p + r /\ b = d * q + r
  <2> DEFINE x == d * p
             y == d * q
  <2>1. x \in Int /\ y \in Int /\ a - r = x /\ b - r = y
    OBVIOUS
  <2> HIDE DEF x, y
  <2>2. a = x + r /\ b = y + r
    BY <2>1
  <2>3. QED
    BY <2>2 DEF x, y
<1>2. QED
  BY <1>1, RemainderOf

LEMMA Quotient ==
  ASSUME NEW d \in Nat \ {0}, NEW a \in Int
  PROVE  \E q \in Int : a = d * q + (a % d) /\ a % d \in 0 .. d - 1
<1> DEFINE q == a \div d
           r == a % d
<1>1. q \in Int /\ r \in 0 .. d - 1 /\ a = d * q + r
  OBVIOUS
<1> HIDE DEF q, r
<1>2. QED
  BY <1>1 DEF r

LEMMA SmallRemainder ==
  ASSUME NEW d \in Nat \ {0}, NEW a \in 0 .. d - 1
  PROVE  a % d = a
<1>1. a = d * 0 + a /\ 0 \in Int /\ a \in Int
  OBVIOUS
<1>2. QED
  BY <1>1, RemainderOf

LEMMA SameRemainder ==
  ASSUME NEW d \in Nat \ {0}, NEW a \in Int, NEW b \in Int, a % d = b % d, a - b < d, b - a < d
  PROVE  a = b
<1>1. PICK p \in Int : a = d * p + (a % d) /\ a % d \in 0 .. d - 1
  BY Quotient
<1>2. PICK q \in Int : b = d * q + (b % d) /\ b % d \in 0 .. d - 1
  BY Quotient
<1> DEFINE r == a % d
<1>3. r \in Int /\ a = d * p + r /\ b = d * q + r
  BY <1>1, <1>2
<1> HIDE DEF r
<1>4. a - b = d * (p - q) /\ p - q \in Int
  BY <1>3
<1>5. p - q >= 1 => d * (p - q) >= d
  OBVIOUS
<1>6. p - q <= -1 => d * (p - q) <= -d
  OBVIOUS
<1>7. p - q = 0
  BY <1>4, <1>5, <1>6
<1>8. QED
  BY <1>4, <1>7

LEMMA PlaceNext ==
  ASSUME NEW n \in Nat
  PROVE  /\ n % HistoryCap \in 0 .. HistoryCap - 1
         /\ (n % HistoryCap) + 1 = Place(n + 1)
         /\ ((n % HistoryCap) + 1) % HistoryCap = (n + 1) % HistoryCap
         /\ n < HistoryCap => n % HistoryCap = n
         /\ n > 0 => (((n % HistoryCap) + HistoryCap - 1) % HistoryCap) + 1 = Place(n)
<1> DEFINE d == HistoryCap
           r == n % d
<1>1. d \in Nat \ {0}
  BY OracleOk
<1> HIDE DEF d
<1>2. PICK q \in Int : n = d * q + r /\ r \in 0 .. d - 1
  <2>1. n \in Int
    OBVIOUS
  <2>2. QED
    BY <1>1, <2>1, Quotient
<1> HIDE DEF r
<1> DEFINE m == d * q
<1>3. m \in Int /\ n = m + r /\ d * (q + 1) = m + d /\ d * (q - 1) = m - d /\ d * 1 = d /\ d * 0 = 0
  BY <1>1, <1>2
<1> HIDE DEF m
<1>4. (r + 1) % d = (n + 1) % d
  <2> DEFINE a == n + 1
             b == r + 1
             e == IF b < d THEN b ELSE 0
             p == IF b < d THEN q ELSE q + 1
             z == IF b < d THEN 0 ELSE 1
  <2>1. a - e = d * p /\ b - e = d * z
    BY <1>1, <1>2, <1>3 DEF m
  <2>2. e \in 0 .. d - 1 /\ a \in Int /\ b \in Int /\ p \in Int /\ z \in Int
    BY <1>1, <1>2
  <2> HIDE DEF a, b, e, p, z
  <2>3. a % d = e /\ b % d = e
    BY <1>1, <2>1, <2>2, RemaindersEqual
  <2>4. QED
    BY <2>3 DEF a, b
<1>5. n < d => n % d = n
  BY <1>1, SmallRemainder
<1>6. ASSUME n > 0 PROVE (r + d - 1) % d = (n - 1) % d
  <2> DEFINE a == n - 1
             b == r + d - 1
             e == IF r >= 1 THEN r - 1 ELSE d - 1
             p == IF r >= 1 THEN q ELSE q - 1
             z == IF r >= 1 THEN 1 ELSE 0
  <2>1. a - e = d * p /\ b - e = d * z
    BY <1>1, <1>2, <1>3 DEF m
  <2>2. e \in 0 .. d - 1 /\ a \in Int /\ b \in Int /\ p \in Int /\ z \in Int
    BY <1>1, <1>2, <1>6
  <2> HIDE DEF a, b, e, p, z
  <2>3. a % d = e /\ b % d = e
    BY <1>1, <2>1, <2>2, RemaindersEqual
  <2>4. QED
    BY <2>3 DEF a, b
<1>7. Place(n + 1) = r + 1 /\ Place(n) = ((n - 1) % d) + 1
  <2>1. (n + 1) - 1 = n
    OBVIOUS
  <2>2. QED
    BY <2>1 DEF Place, d, r
<1>8. QED
  BY <1>2, <1>4, <1>5, <1>6, <1>7 DEF r, d

LEMMA PlaceKept ==
  ASSUME NEW n \in Nat, NEW j \in 1 .. n, j > n - HistoryCap
  PROVE  Place(j) \in 1 .. Kept(n)
<1>1. HistoryCap \in Nat \ {0} /\ j - 1 \in Nat
  BY OracleOk
<1>2. (j - 1) % HistoryCap \in 0 .. HistoryCap - 1 /\ (j - 1 < HistoryCap => (j - 1) % HistoryCap = j - 1)
  BY <1>1, PlaceNext
<1>3. CASE n < HistoryCap
  <2>1. Place(j) = j
    BY <1>1, <1>2, <1>3 DEF Place
  <2>2. QED
    BY <1>3, <2>1 DEF Kept
<1>4. CASE ~(n < HistoryCap)
  <2>1. Place(j) \in 1 .. HistoryCap
    BY <1>1, <1>2 DEF Place
  <2>2. QED
    BY <1>4, <2>1 DEF Kept
<1>5. QED
  BY <1>3, <1>4

LEMMA PlaceOnce ==
  ASSUME NEW i \in Nat, NEW j \in Nat, i - j < HistoryCap, j - i < HistoryCap, Place(i) = Place(j)
  PROVE  i = j
<1>1. HistoryCap \in Nat \ {0} /\ i - 1 \in Int /\ j - 1 \in Int /\ (i - 1) - (j - 1) < HistoryCap /\ (j - 1) - (i - 1) < HistoryCap
  BY OracleOk
<1>2. (i - 1) % HistoryCap \in 0 .. HistoryCap - 1 /\ (j - 1) % HistoryCap \in 0 .. HistoryCap - 1
  BY <1>1, Quotient
<1>3. (i - 1) % HistoryCap = (j - 1) % HistoryCap
  BY <1>2 DEF Place
<1>4. i - 1 = j - 1
  BY <1>1, <1>3, SameRemainder
<1>5. QED
  BY <1>4

(* Every place that is kept holds one of the last medians.                 *)
LEMMA PlaceFilled ==
  ASSUME NEW n \in Nat, NEW y \in 1 .. Kept(n)
  PROVE  \E j \in 1 .. n : j > n - HistoryCap /\ Place(j) = y
<1> DEFINE d == HistoryCap
           r == (n - 1) % d
<1>1. d \in Nat \ {0}
  BY OracleOk
<1>2. Kept(n) = IF n < d THEN n ELSE d
  BY DEF Kept
<1>3. y \in 1 .. d /\ y - 1 \in 0 .. d - 1
  BY <1>1, <1>2
<1>4. ASSUME NEW j \in 1 .. n, NEW q \in Int, j > n - d, j - 1 = d * q + (y - 1)
      PROVE  \E k \in 1 .. n : k > n - HistoryCap /\ Place(k) = y
  <2> DEFINE a == j - 1
             e == y - 1
             x == d * q
  <2>1. x \in Int /\ a = x + e /\ a \in Int /\ e \in Int
    BY <1>1, <1>3, <1>4
  <2>2. a - e = x
    BY <2>1
  <2>3. a - e = d * q /\ e \in 0 .. d - 1
    BY <1>3, <2>2
  <2> HIDE DEF a, e
  <2>4. a % d = e
    BY <1>1, <2>1, <2>3, RemaindersEqual
  <2>5. Place(j) = y
    BY <2>4, <1>3 DEF Place, a, e
  <2>6. QED
    BY <1>4, <2>5
<1> HIDE DEF d
<1>5. CASE n < d
  <2>1. y \in 1 .. n /\ y > n - d /\ y - 1 = d * 0 + (y - 1) /\ 0 \in Int
    BY <1>1, <1>2, <1>5
  <2>2. QED
    BY <1>4, <2>1
<1>6. CASE ~(n < d)
  <2>1. n - 1 \in Int
    OBVIOUS
  <2>2. PICK q \in Int : n - 1 = d * q + r /\ r \in 0 .. d - 1
    BY <1>1, <2>1, Quotient
  <2> HIDE DEF r
  <2>3. CASE y - 1 <= r
    <3> DEFINE j == n - (r - (y - 1))
    <3>1. j \in 1 .. n /\ j > n - d /\ j - 1 = d * q + (y - 1)
      BY <1>1, <1>3, <1>6, <2>2, <2>3
    <3> HIDE DEF j
    <3>2. QED
      BY <1>4, <3>1
  <2>4. CASE y - 1 > r
    <3> DEFINE j == n - r - d + (y - 1)
    <3>1. j \in 1 .. n /\ j > n - d /\ q - 1 \in Int
      BY <1>1, <1>3, <1>6, <2>2, <2>4
    <3>2. d * (q - 1) = d * q - d
      BY <1>1, <2>2
    <3>3. j - 1 = d * (q - 1) + (y - 1)
      BY <1>1, <1>3, <2>2, <3>2
    <3> HIDE DEF j
    <3>4. QED
      BY <1>4, <3>1, <3>3
  <2>5. QED
    BY <1>1, <1>3, <2>2, <2>3, <2>4
<1>7. QED
  BY <1>1, <1>5, <1>6

RingRecord == [slots : Seq(Quote), next : Nat]
UpTo(log, t) == \A j \in 1 .. Len(log) : log[j].time \in 0 .. t

(* A second median of one time replaces the first, in both.                *)
LEMMA MedianReplaced ==
  ASSUME NEW ring \in RingRecord, NEW log \in Seq(Quote), RingInv(ring, log), NEW snap \in Quote,
         Len(log) > 0, log[Len(log)].time = snap.time
  PROVE  /\ Oracle!RecordPriceSnapshot(ring, snap) \in RingRecord /\ Oracle!Published(log, snap) \in Seq(Quote)
         /\ RingInv(Oracle!RecordPriceSnapshot(ring, snap), Oracle!Published(log, snap))
         /\ UpTo(log, snap.time) => UpTo(Oracle!Published(log, snap), snap.time)
<1> DEFINE n == Len(log)
           y == Place(n)
           slots == ring.slots
           after == [slots EXCEPT ![y] = snap]
           new == [ring EXCEPT !.slots = after]
           more == [log EXCEPT ![n] = snap]
<1>1. /\ n \in Nat /\ n \in 1 .. n /\ n > n - HistoryCap /\ HistoryCap \in Nat \ {0}
      /\ slots \in Seq(Quote) /\ ring.next \in Nat /\ log \in [1 .. n -> Quote]
  BY OracleOk DEF RingRecord
<1>2. /\ Len(slots) = Kept(n) /\ ring.next = n % HistoryCap
      /\ \A j \in 1 .. n : j > n - HistoryCap => slots[Place(j)] = log[j]
      /\ \A i, j \in 1 .. n : i < j => log[i].time < log[j].time
  BY DEF RingInv
<1>3. y \in 1 .. Kept(n) /\ slots[y] = log[n] /\ y \in DOMAIN slots
  BY <1>1, <1>2, PlaceKept
<1>4. ((ring.next + HistoryCap - 1) % HistoryCap) + 1 = y
  BY <1>1, <1>2, PlaceNext
<1>5. Oracle!RecordPriceSnapshot(ring, snap) = new
  <2> DEFINE newest == (ring.next + HistoryCap - 1) % HistoryCap
  <2>1. newest \in Nat /\ newest + 1 = y
    <3>1. ring.next + HistoryCap - 1 \in Int
      BY <1>1
    <3>2. newest \in 0 .. HistoryCap - 1
      BY <1>1, <3>1, Quotient
    <3>3. QED
      BY <1>4, <3>2
  <2>2. Oracle!RecordPriceSnapshot(ring, snap) =
          IF Len(slots) > 0 /\ newest < Len(slots) /\ slots[newest + 1].time = snap.time
          THEN [ring EXCEPT !.slots = [slots EXCEPT ![newest + 1] = snap]]
          ELSE [slots |-> IF Len(slots) < HistoryCap THEN Append(slots, snap) ELSE [slots EXCEPT ![ring.next + 1] = snap],
                next |-> (ring.next + 1) % HistoryCap]
    BY DEF Oracle!RecordPriceSnapshot, RingRecord
  <2> HIDE DEF newest
  <2>3. Len(slots) > 0 /\ newest < Len(slots)
    BY <1>2, <1>3, <2>1
  <2>4. QED
    BY <1>3, <2>1, <2>2, <2>3
<1>6. Oracle!Published(log, snap) = more
  <2>1. log # <<>>
    BY <1>1
  <2>2. QED
    BY <2>1 DEF Oracle!Published
<1> HIDE DEF n, y, slots
<1>7. /\ after \in Seq(Quote) /\ Len(after) = Kept(n) /\ after[y] = snap
      /\ \A x \in 1 .. Kept(n) : x # y => after[x] = slots[x]
  <2>1. DOMAIN slots = 1 .. Kept(n) /\ Kept(n) \in Nat
    BY <1>1, <1>2 DEF Kept
  <2>2. QED
    BY <1>1, <1>2, <1>3, <2>1
<1>8. /\ more \in Seq(Quote) /\ Len(more) = n /\ more[n] = snap
      /\ \A x \in 1 .. n : x # n => more[x] = log[x]
  BY <1>1 DEF n
<1>9. new \in RingRecord /\ new.slots = after /\ new.next = ring.next
  BY <1>1, <1>7 DEF RingRecord
<1> HIDE DEF after, more, new
<1>10. ASSUME NEW j \in 1 .. n, j > n - HistoryCap PROVE after[Place(j)] = more[j]
  <2>1. CASE j = n
    BY <1>7, <1>8, <2>1 DEF y
  <2>2. CASE j # n
    <3>1. Place(j) \in 1 .. Kept(n)
      BY <1>1, <1>10, PlaceKept
    <3>2. Place(j) # y
      <4>1. j \in Nat /\ j - n < HistoryCap /\ n - j < HistoryCap
        BY <1>1, <1>10
      <4>2. QED
        BY <1>1, <2>2, <4>1, PlaceOnce DEF y
    <3>3. QED
      BY <1>2, <1>7, <1>8, <1>10, <2>2, <3>1, <3>2
  <2>3. QED
    BY <2>1, <2>2
<1>11. \A j \in 1 .. n : more[j].time = log[j].time
  BY <1>8 DEF n
<1>12. RingInv(new, more)
  BY <1>2, <1>7, <1>8, <1>9, <1>10, <1>11 DEF RingInv
<1>13. UpTo(log, snap.time) => UpTo(more, snap.time)
  BY <1>8, <1>11 DEF UpTo, n
<1>14. QED
  BY <1>5, <1>6, <1>8, <1>9, <1>12, <1>13

(* The first median of a time takes the next place.                        *)
LEMMA MedianAdded ==
  ASSUME NEW ring \in RingRecord, NEW log \in Seq(Quote), RingInv(ring, log), NEW snap \in Quote,
         snap.time \in Nat, UpTo(log, snap.time), ~(Len(log) > 0 /\ log[Len(log)].time = snap.time)
  PROVE  /\ Oracle!RecordPriceSnapshot(ring, snap) \in RingRecord /\ Oracle!Published(log, snap) \in Seq(Quote)
         /\ RingInv(Oracle!RecordPriceSnapshot(ring, snap), Oracle!Published(log, snap))
         /\ UpTo(Oracle!Published(log, snap), snap.time)
<1> DEFINE n == Len(log)
           y == Place(n + 1)
           slots == ring.slots
           after == IF Len(slots) < HistoryCap THEN Append(slots, snap) ELSE [slots EXCEPT ![ring.next + 1] = snap]
           new == [slots |-> after, next |-> (ring.next + 1) % HistoryCap]
           more == Append(log, snap)
<1>1. /\ n \in Nat /\ HistoryCap \in Nat \ {0}
      /\ slots \in Seq(Quote) /\ ring.next \in Nat /\ log \in [1 .. n -> Quote]
  BY OracleOk DEF RingRecord
<1>2. /\ Len(slots) = Kept(n) /\ ring.next = n % HistoryCap
      /\ \A j \in 1 .. n : j > n - HistoryCap => slots[Place(j)] = log[j]
      /\ \A i, j \in 1 .. n : i < j => log[i].time < log[j].time
  BY DEF RingInv
<1>3. /\ ring.next \in 0 .. HistoryCap - 1 /\ ring.next + 1 = y /\ (ring.next + 1) % HistoryCap = (n + 1) % HistoryCap
      /\ n < HistoryCap => ring.next = n
  <2>1. ring.next = n % HistoryCap
    BY <1>2
  <2> HIDE DEF n
  <2>2. /\ n % HistoryCap \in 0 .. HistoryCap - 1 /\ (n % HistoryCap) + 1 = Place(n + 1)
        /\ ((n % HistoryCap) + 1) % HistoryCap = (n + 1) % HistoryCap
        /\ n < HistoryCap => n % HistoryCap = n
    BY <1>1, PlaceNext
  <2>3. QED
    BY <2>1, <2>2
<1>4. Oracle!RecordPriceSnapshot(ring, snap) = new
  <2> DEFINE newest == (ring.next + HistoryCap - 1) % HistoryCap
  <2>1. Oracle!RecordPriceSnapshot(ring, snap) =
          IF Len(slots) > 0 /\ newest < Len(slots) /\ slots[newest + 1].time = snap.time
          THEN [ring EXCEPT !.slots = [slots EXCEPT ![newest + 1] = snap]] ELSE new
    BY DEF Oracle!RecordPriceSnapshot, RingRecord
  <2>2. ASSUME Len(slots) > 0 PROVE slots[newest + 1].time # snap.time
    <3>1. n > 0
      BY <1>1, <1>2, <2>2 DEF Kept
    <3>2. newest + 1 = Place(n)
      BY <1>1, <1>2, <3>1, PlaceNext
    <3>3. slots[Place(n)] = log[n]
      <4>1. n \in 1 .. n /\ n > n - HistoryCap
        BY <1>1, <3>1
      <4>2. QED
        BY <1>2, <4>1
    <3>4. QED
      BY <3>1, <3>2, <3>3
  <2> HIDE DEF newest, new
  <2>3. QED
    BY <2>1, <2>2
<1>5. Oracle!Published(log, snap) = more
  <2>1. log # <<>> => n > 0
    BY <1>1
  <2>2. QED
    BY <2>1 DEF Oracle!Published
<1>6. \A j \in 1 .. n : log[j].time \in 0 .. snap.time /\ log[j].time < snap.time
  <2>1. \A j \in 1 .. n : log[j].time \in 0 .. snap.time
    BY DEF UpTo
  <2>2. ASSUME NEW j \in 1 .. n PROVE log[j].time < snap.time
    <3>1. n > 0 /\ n \in 1 .. n
      BY <1>1
    <3>2. log[n].time \in 0 .. snap.time /\ log[n].time # snap.time /\ log[j].time \in 0 .. snap.time
      BY <2>1, <3>1
    <3>3. j < n => log[j].time < log[n].time
      BY <1>2, <3>1
    <3> HIDE DEF n
    <3>4. j < n \/ j = n
      BY <1>1
    <3>5. QED
      BY <3>2, <3>3, <3>4
  <2>3. QED
    BY <2>1, <2>2
<1>7. /\ more \in Seq(Quote) /\ Len(more) = n + 1 /\ more[n + 1] = snap
      /\ \A x \in 1 .. n : more[x] = log[x]
  BY <1>1
<1> HIDE DEF n, y, slots, more
<1>8. /\ after \in Seq(Quote) /\ Len(after) = Kept(n + 1) /\ after[y] = snap /\ y \in 1 .. Kept(n + 1)
      /\ \A x \in 1 .. Kept(n) : x # y => after[x] = slots[x]
  <2>1. CASE n < HistoryCap
    <3>1. Len(slots) = n /\ Kept(n + 1) = n + 1 /\ Kept(n) = n /\ y = n + 1
      BY <1>1, <1>2, <1>3, <2>1 DEF Kept
    <3>2. after = Append(slots, snap)
      BY <2>1, <3>1
    <3> HIDE DEF after
    <3>3. QED
      BY <1>1, <3>1, <3>2
  <2>2. CASE ~(n < HistoryCap)
    <3>1. Len(slots) = HistoryCap /\ Kept(n + 1) = HistoryCap /\ Kept(n) = HistoryCap /\ y \in 1 .. HistoryCap
      BY <1>1, <1>2, <1>3, <2>2 DEF Kept
    <3>2. after = [slots EXCEPT ![y] = snap]
      <4>1. ~(Len(slots) < HistoryCap)
        BY <1>1, <3>1
      <4>2. after = [slots EXCEPT ![ring.next + 1] = snap]
        BY <4>1, Zenon
      <4>3. QED
        BY <1>3, <4>2, Zenon
    <3> HIDE DEF after
    <3>3. QED
      BY <1>1, <3>1, <3>2
  <2>3. QED
    BY <2>1, <2>2
<1>9. new \in RingRecord /\ new.slots = after /\ new.next = (n + 1) % HistoryCap
  <2>1. (n + 1) % HistoryCap \in Nat
    <3>1. (n + 1) % HistoryCap \in 0 .. HistoryCap - 1
      BY <1>1, PlaceNext
    <3>2. QED
      BY <1>1, <3>1
  <2>2. QED
    BY <1>3, <1>8, <2>1 DEF RingRecord
<1> HIDE DEF after, new
<1>10. ASSUME NEW j \in 1 .. n + 1, j > (n + 1) - HistoryCap PROVE after[Place(j)] = more[j]
  <2>1. CASE j = n + 1
    BY <1>7, <1>8, <2>1 DEF y
  <2>2. CASE j # n + 1
    <3>1. j \in 1 .. n /\ j > n - HistoryCap
      BY <1>1, <1>10, <2>2
    <3>2. Place(j) \in 1 .. Kept(n)
      BY <1>1, <3>1, PlaceKept
    <3>3. Place(j) # y
      <4>1. j \in Nat /\ n + 1 \in Nat /\ j - (n + 1) < HistoryCap /\ (n + 1) - j < HistoryCap
        BY <1>1, <1>10
      <4>2. QED
        BY <1>1, <2>2, <4>1, PlaceOnce DEF y
    <3>4. QED
      BY <1>2, <1>7, <1>8, <3>1, <3>2, <3>3
  <2>3. QED
    BY <2>1, <2>2
<1>11. ASSUME NEW i \in 1 .. n + 1, NEW j \in 1 .. n + 1, i < j PROVE more[i].time < more[j].time
  <2>1. i \in 1 .. n /\ (j \in 1 .. n \/ j = n + 1)
    BY <1>1, <1>11
  <2>2. QED
    BY <1>2, <1>6, <1>7, <1>11, <2>1
<1>12. RingInv(new, more)
  BY <1>7, <1>8, <1>9, <1>10, <1>11 DEF RingInv
<1>13. UpTo(more, snap.time)
  <2>1. ASSUME NEW j \in 1 .. n + 1 PROVE more[j].time \in 0 .. snap.time
    <3>1. j \in 1 .. n \/ j = n + 1
      BY <1>1
    <3>2. snap.time \in 0 .. snap.time
      OBVIOUS
    <3>3. QED
      BY <1>6, <1>7, <3>1, <3>2
  <2>2. QED
    BY <1>7, <2>1 DEF UpTo
<1>14. QED
  BY <1>4, <1>5, <1>7, <1>9, <1>12, <1>13

(* get_price_at: the last slot of a time that is asked for.                *)

Better(slots, t, i, q) == IF slots[i].time <= t /\ slots[i].time >= q.time THEN slots[i] ELSE q
Bests(F, slots, t, n) ==
  F = [i \in 0 .. n |->
         IF i = 0 THEN Oracle!NoPrice
         ELSE IF slots[i].time <= t /\ slots[i].time >= F[i - 1].time THEN slots[i] ELSE F[i - 1]]

LEMMA BestsExist ==
  ASSUME NEW slots \in Seq(Quote), NEW t
  PROVE  \E F : Bests(F, slots, t, Len(slots))
<1> DEFINE n == Len(slots)
           step == [i \in 1 .. n |-> [q \in Quote |-> Better(slots, t, i, q)]]
<1>1. n \in Nat /\ \A i \in 1 .. n : slots[i] \in Quote
  OBVIOUS
<1>2. Oracle!NoPrice \in Quote
  BY DEF Oracle!NoPrice, Quote
<1>3. \A i \in 1 .. n : \A q \in Quote : Better(slots, t, i, q) \in Quote
  BY <1>1 DEF Better
<1> HIDE DEF n
<1>4. step \in [1 .. n -> [Quote -> Quote]] /\ \A i \in 1 .. n : \A q \in Quote : step[i][q] = Better(slots, t, i, q)
  BY <1>3
<1> HIDE DEF step
<1>5. PICK F : RunOf(F, Quote, Oracle!NoPrice, step, n)
  BY <1>1, <1>2, <1>4, IterationExists
<1>6. F \in [0 .. n -> Quote] /\ F[0] = Oracle!NoPrice /\ \A i \in 1 .. n : F[i] = step[i][F[i - 1]]
  BY <1>5 DEF RunOf
<1>7. ASSUME NEW i \in 0 .. n PROVE F[i] = IF i = 0 THEN Oracle!NoPrice ELSE Better(slots, t, i, F[i - 1])
  <2>1. CASE i = 0
    BY <1>6, <2>1
  <2>2. CASE i # 0
    <3>1. i \in 1 .. n /\ i - 1 \in 0 .. n
      BY <1>1, <2>2
    <3>2. QED
      BY <2>2, <3>1, <1>4, <1>6
  <2>3. QED
    BY <2>1, <2>2
<1>8. F = [i \in 0 .. n |-> IF i = 0 THEN Oracle!NoPrice ELSE Better(slots, t, i, F[i - 1])]
  <2>1. F = [i \in 0 .. n |-> F[i]]
    BY <1>6
  <2>2. QED
    BY <1>7, <2>1
<1>9. Bests(F, slots, t, n)
  BY <1>8 DEF Bests, Better
<1>10. QED
  BY <1>9 DEF n

LEMMA GetPriceAtIs ==
  ASSUME NEW k, NEW t \in Nat, k.ring.slots \in Seq(Quote), NEW y \in 1 .. Len(k.ring.slots), k.ring.slots[y].time = t
  PROVE  \E z \in 1 .. Len(k.ring.slots) : Oracle!GetPriceAt(k, t) = k.ring.slots[z] /\ k.ring.slots[z].time = t
<1> DEFINE slots == k.ring.slots
           n == Len(slots)
           F == CHOOSE F : Bests(F, slots, t, n)
           Found(i) ==
             /\ F[i] = Oracle!NoPrice \/ \E z \in 1 .. i : F[i] = slots[z] /\ slots[z].time <= t
             /\ F[i].time \in Int
             /\ \A z \in 1 .. i : slots[z].time <= t => slots[z].time <= F[i].time
           G == {i \in Nat : i <= n => Found(i)}
<1>1. Bests(F, slots, t, n)
  BY BestsExist, Zenon
<1>2. Oracle!GetPriceAt(k, t) = F[n]
  BY DEF Oracle!GetPriceAt, Bests
<1> HIDE DEF F
<1>3. n \in Nat /\ \A i \in 1 .. n : slots[i] \in Quote /\ slots[i].time \in Int
  <2>1. n \in Nat /\ \A i \in 1 .. n : slots[i] \in Quote
    OBVIOUS
  <2>2. QED
    BY <2>1 DEF Quote
<1> HIDE DEF slots, n
<1>4. F[0] = Oracle!NoPrice /\ \A i \in 1 .. n : F[i] = Better(slots, t, i, F[i - 1])
  BY <1>1, <1>3 DEF Bests, Better
<1>5. Found(0)
  BY <1>4 DEF Oracle!NoPrice
<1>6. ASSUME NEW i \in Nat, i \in G PROVE i + 1 \in G
  <2>1. SUFFICES ASSUME i + 1 <= n PROVE Found(i + 1)
    OBVIOUS
  <2>2. Found(i) /\ i + 1 \in 1 .. n /\ (i + 1) - 1 = i
    BY <1>3, <1>6, <2>1
  <2> DEFINE q == F[i]
             x == slots[i + 1]
             r == F[i + 1]
  <2>3. r = IF x.time <= t /\ x.time >= q.time THEN x ELSE q
    BY <1>4, <2>2 DEF Better
  <2>4. x.time \in Int /\ q.time \in Int /\ r.time \in Int
    BY <1>3, <2>2, <2>3
  <2>5. r = Oracle!NoPrice \/ \E z \in 1 .. i + 1 : r = slots[z] /\ slots[z].time <= t
    <3>1. CASE x.time <= t /\ x.time >= q.time
      <4>1. i + 1 \in 1 .. i + 1 /\ r = slots[i + 1] /\ slots[i + 1].time <= t
        BY <2>3, <3>1
      <4>2. QED
        BY <4>1
    <3>2. CASE ~(x.time <= t /\ x.time >= q.time)
      <4>1. r = q
        BY <2>3, <3>2
      <4>2. \A z \in 1 .. i : z \in 1 .. i + 1
        OBVIOUS
      <4>3. QED
        BY <2>2, <4>1, <4>2
    <3>3. QED
      BY <3>1, <3>2
  <2>6. ASSUME NEW z \in 1 .. i + 1, slots[z].time <= t PROVE slots[z].time <= r.time
    <3>1. CASE z = i + 1
      BY <2>3, <2>4, <2>6, <3>1
    <3>2. CASE z # i + 1
      <4>1. z \in 1 .. i /\ z \in 1 .. n
        BY <1>3, <2>1, <3>2
      <4>2. slots[z].time <= q.time /\ slots[z].time \in Int
        BY <1>3, <2>2, <2>6, <4>1
      <4>3. q.time <= r.time
        <5>1. CASE x.time <= t /\ x.time >= q.time
          <6>1. r = x
            BY <2>3, <5>1
          <6>2. QED
            BY <2>4, <5>1, <6>1
        <5>2. CASE ~(x.time <= t /\ x.time >= q.time)
          <6>1. r = q
            BY <2>3, <5>2
          <6>2. QED
            BY <2>4, <6>1
        <5>3. QED
          BY <5>1, <5>2
      <4>4. QED
        <5> HIDE DEF q, r
        <5>1. QED
          BY <2>4, <4>2, <4>3
    <3>3. QED
      BY <3>1, <3>2
  <2>7. QED
    BY <2>4, <2>5, <2>6
<1>7. Found(n)
  <2>1. 0 \in G
    BY <1>5
  <2>2. \A i \in Nat : i \in G => i + 1 \in G
    BY <1>6
  <2>3. n \in G
    <3> HIDE DEF G
    <3>1. QED
      BY <1>3, <2>1, <2>2, NumberInduction
  <2>4. QED
    BY <1>3, <2>3
<1>8. y \in 1 .. n /\ slots[y].time = t /\ t <= t
  BY DEF n, slots
<1>9. t <= F[n].time
  BY <1>7, <1>8
<1>10. PICK z \in 1 .. n : F[n] = slots[z] /\ slots[z].time <= t
  <2>1. F[n] # Oracle!NoPrice
    BY <1>9 DEF Oracle!NoPrice
  <2>2. QED
    BY <1>7, <2>1
<1>11. slots[z].time = t
  BY <1>3, <1>9, <1>10
<1>12. QED
  BY <1>2, <1>10, <1>11 DEF n, slots

LEMMA HistoryIs ==
  ASSUME NEW k \in PairRecord, NEW log \in Seq(Quote), RingInv(k.ring, log), NEW t0 \in Nat, UpTo(log, t0),
         NEW i \in DOMAIN log, i > Len(log) - HistoryCap
  PROVE  Oracle!GetPriceAt(k, log[i].time) = log[i]
<1> DEFINE n == Len(log)
           slots == k.ring.slots
           t == log[i].time
<1>1. n \in Nat /\ i \in 1 .. n /\ slots \in Seq(Quote) /\ HistoryCap \in Nat \ {0}
  BY OracleOk DEF PairRecord
<1>2. /\ Len(slots) = Kept(n)
      /\ \A j \in 1 .. n : j > n - HistoryCap => slots[Place(j)] = log[j]
      /\ \A a, b \in 1 .. n : a < b => log[a].time < log[b].time
  BY DEF RingInv
<1>3. \A j \in 1 .. n : log[j].time \in Nat
  BY DEF UpTo
<1> HIDE DEF n
<1>4. Place(i) \in 1 .. Len(slots) /\ slots[Place(i)] = log[i] /\ slots[Place(i)].time = t /\ t \in Nat
  <2>1. i > n - HistoryCap
    BY DEF n
  <2>2. QED
    BY <1>1, <1>2, <1>3, <2>1, PlaceKept
<1>5. PICK z \in 1 .. Len(slots) : Oracle!GetPriceAt(k, t) = slots[z] /\ slots[z].time = t
  <2> HIDE DEF t
  <2>1. QED
    BY <1>1, <1>4, GetPriceAtIs
<1>6. PICK j \in 1 .. n : j > n - HistoryCap /\ Place(j) = z
  BY <1>1, <1>2, <1>5, PlaceFilled
<1>7. slots[z] = log[j] /\ log[j].time = t
  BY <1>2, <1>5, <1>6
<1>8. i = j
  <2>1. t \in Nat
    BY <1>4
  <2>2. ~(i < j)
    <3>1. SUFFICES ASSUME i < j PROVE t < t
      BY <2>1
    <3>2. log[i].time < log[j].time
      BY <1>1, <1>2, <1>6, <3>1
    <3>3. QED
      BY <1>7, <3>2
  <2>3. ~(j < i)
    <3>1. SUFFICES ASSUME j < i PROVE t < t
      BY <2>1
    <3>2. log[j].time < log[i].time
      BY <1>1, <1>2, <1>6, <3>1
    <3>3. QED
      BY <1>7, <3>2
  <2>4. QED
    BY <1>1, <1>6, <2>2, <2>3
<1>9. QED
  BY <1>5, <1>7, <1>8

-----------------------------------------------------------------------------
(* The oracle's step: its pairs keep their types, and each pair's ring     *)
(* holds the last of the medians published, in the order of their times;   *)
(* the pairs that strayed are the flagged ones, which all have a peg.      *)

FlagInv(k, b) == (k.flagged <=> b) /\ (b => k.peg # Oracle!NoPeg)

OracleInv ==
  /\ OracleTypes
  /\ \A p \in Oracle!Pairs : RingInv(pairs[p].ring, published[p]) /\ UpTo(published[p], oracleNow)
  /\ \A p \in Oracle!Pairs : FlagInv(pairs[p], p \in strayed)

LEMMA OracleStarts ==
  ASSUME Oracle!Init
  PROVE  OracleInv
<1>1. Oracle!NewPair \in PairRecord
  <2>1. Oracle!NoPrice \in Quote
    BY DEF Oracle!NoPrice, Quote
  <2>2. [slots |-> <<>>, next |-> 0] \in [slots : Seq(Quote), next : Nat]
    OBVIOUS
  <2>3. MaxStaleness \in Nat /\ <<>> \in Seq(Feeders) /\ [f \in Feeders |-> Oracle!NoPrice] \in [Feeders -> Quote]
    BY <2>1, OracleOk
  <2>4. QED
    BY <2>2, <2>3 DEF Oracle!NewPair, PairRecord
<1>2. OracleTypes
  <2>1. DefaultMinFresh \in Nat \ {0}
    BY OracleOk
  <2>2. pairs \in [Oracle!Pairs -> PairRecord]
    BY <1>1 DEF Oracle!Init
  <2>3. published \in [Oracle!Pairs -> Seq(Quote)] /\ oracleNow \in Nat /\ oracleAdmin \in Admins
    BY DEF Oracle!Init
  <2>4. oraclePaused \in BOOLEAN /\ feeders \in SUBSET Feeders /\ oracleUpgrade \in Nat \cup {-1} /\ minFresh \in Nat \ {0}
    BY <2>1 DEF Oracle!Init
  <2>5. QED
    BY <2>2, <2>3, <2>4 DEF OracleTypes
<1>3. ASSUME NEW p \in Oracle!Pairs PROVE RingInv(pairs[p].ring, published[p]) /\ UpTo(published[p], oracleNow)
  <2>1. pairs[p].ring.slots = <<>> /\ pairs[p].ring.next = 0 /\ published[p] = <<>>
    BY DEF Oracle!Init, Oracle!NewPair
  <2>2. Kept(0) = 0 /\ 0 % HistoryCap = 0
    BY OracleOk DEF Kept
  <2>3. QED
    BY <2>1, <2>2 DEF RingInv, UpTo
<1>4. \A p \in Oracle!Pairs : FlagInv(pairs[p], p \in strayed)
  BY DEF Oracle!Init, Oracle!NewPair, FlagInv
<1>5. QED
  BY <1>2, <1>3, <1>4 DEF OracleInv

(* No price, median or snapshot of any pair changes.                       *)
PricesStay ==
  \A q \in Oracle!Pairs :
    pairs'[q].quotes = pairs[q].quotes /\ pairs'[q].ring = pairs[q].ring /\ published'[q] = published[q]

LEMMA PairChanged ==
  ASSUME OracleInv, NEW p \in Oracle!Pairs, NEW k \in PairRecord, NEW log \in Seq(Quote),
         RingInv(k.ring, log), UpTo(log, oracleNow),
         FlagInv(k, p \in strayed'), \A q \in Oracle!Pairs \ {p} : q \in strayed' <=> q \in strayed,
         pairs' = [pairs EXCEPT ![p] = k], published' = [published EXCEPT ![p] = log],
         UNCHANGED <<oracleAdmin, oracleUpgrade, feeders, minFresh, oraclePaused, oracleNow>>
  PROVE  OracleInv'
<1>1. pairs \in [Oracle!Pairs -> PairRecord] /\ published \in [Oracle!Pairs -> Seq(Quote)]
  BY DEF OracleInv, OracleTypes
<1>2. OracleTypes'
  BY <1>1 DEF OracleInv, OracleTypes
<1>3. ASSUME NEW q \in Oracle!Pairs
      PROVE  RingInv(pairs'[q].ring, published'[q]) /\ UpTo(published'[q], oracleNow') /\ FlagInv(pairs'[q], q \in strayed')
  <2>1. CASE q = p
    <3>1. pairs'[q] = k /\ published'[q] = log /\ oracleNow' = oracleNow
      BY <1>1, <2>1
    <3>2. QED
      BY <2>1, <3>1
  <2>2. CASE q # p
    <3>1. pairs'[q] = pairs[q] /\ published'[q] = published[q] /\ oracleNow' = oracleNow /\ (q \in strayed' <=> q \in strayed)
      BY <1>1, <2>2
    <3>2. FlagInv(pairs[q], q \in strayed)
      BY DEF OracleInv
    <3>3. FlagInv(pairs'[q], q \in strayed')
      BY <3>1, <3>2 DEF FlagInv
    <3>4. QED
      BY <3>1, <3>3 DEF OracleInv
  <2>3. QED
    BY <2>1, <2>2
<1>4. QED
  BY <1>2, <1>3 DEF OracleInv

LEMMA SetPairKeeps ==
  ASSUME OracleInv, NEW p \in Oracle!Pairs, NEW k \in PairRecord, k.ring = pairs[p].ring, k.quotes = pairs[p].quotes,
         FlagInv(k, p \in strayed'), \A q \in Oracle!Pairs \ {p} : q \in strayed' <=> q \in strayed,
         pairs' = [pairs EXCEPT ![p] = k],
         UNCHANGED <<oracleAdmin, oracleUpgrade, feeders, minFresh, oraclePaused, published, oracleNow>>
  PROVE  OracleInv' /\ PricesStay
<1>1. pairs \in [Oracle!Pairs -> PairRecord] /\ published \in [Oracle!Pairs -> Seq(Quote)]
  BY DEF OracleInv, OracleTypes
<1>2. PricesStay
  BY <1>1 DEF PricesStay
<1>3. RingInv(k.ring, published[p]) /\ UpTo(published[p], oracleNow) /\ published[p] \in Seq(Quote)
  BY <1>1 DEF OracleInv
<1>4. published' = [published EXCEPT ![p] = published[p]]
  BY <1>1
<1>5. QED
  BY <1>2, <1>3, <1>4, PairChanged

LEMMA SettingKeeps ==
  ASSUME OracleInv, Oracle!Setting
  PROVE  OracleInv' /\ PricesStay
<1>1. pairs \in [Oracle!Pairs -> PairRecord] /\ UNCHANGED <<oraclePaused, published, oracleNow>>
  BY DEF OracleInv, OracleTypes, Oracle!Setting
<1>2. ASSUME UNCHANGED <<pairs, strayed>>, OracleTypes' PROVE OracleInv' /\ PricesStay
  <2>1. UNCHANGED <<pairs, strayed, published, oracleNow>>
    BY <1>1, <1>2
  <2>2. QED
    BY <1>2, <2>1 DEF OracleInv, PricesStay
<1>3. ASSUME NEW f \in Feeders, Oracle!AddFeeder(f) \/ Oracle!RemoveFeeder(f) PROVE UNCHANGED <<pairs, strayed>> /\ OracleTypes'
  BY <1>1, <1>3 DEF OracleInv, OracleTypes, Oracle!AddFeeder, Oracle!RemoveFeeder
<1>4. ASSUME NEW n \in FeederCounts, Oracle!SetMinFreshFeeders(n) PROVE UNCHANGED <<pairs, strayed>> /\ OracleTypes'
  <2>1. n \in Nat \ {0}
    BY <1>4, OracleOk DEF Oracle!SetMinFreshFeeders
  <2>2. QED
    BY <1>1, <1>4, <2>1 DEF OracleInv, OracleTypes, Oracle!SetMinFreshFeeders
<1>5. ASSUME NEW a \in Admins, Oracle!TransferAdmin(a) PROVE UNCHANGED <<pairs, strayed>> /\ OracleTypes'
  BY <1>1, <1>5 DEF OracleInv, OracleTypes, Oracle!TransferAdmin
<1>6. ASSUME Oracle!ProposeUpgrade \/ Oracle!ExecuteUpgrade PROVE UNCHANGED <<pairs, strayed>> /\ OracleTypes'
  BY <1>1, <1>6 DEF OracleInv, OracleTypes, Oracle!ProposeUpgrade, Oracle!ExecuteUpgrade
<1>7. ASSUME NEW p \in Oracle!Pairs, NEW k \in PairRecord, k.ring = pairs[p].ring, k.quotes = pairs[p].quotes,
             Oracle!SetPair(p, k), k.flagged = pairs[p].flagged, k.peg # pairs[p].peg => k.peg # Oracle!NoPeg
      PROVE  OracleInv' /\ PricesStay
  <2>1. FlagInv(pairs[p], p \in strayed)
    BY DEF OracleInv
  <2>2. strayed' = strayed
    BY <1>7 DEF Oracle!SetPair
  <2>3. FlagInv(k, p \in strayed')
    BY <1>7, <2>1, <2>2 DEF FlagInv
  <2>4. pairs' = [pairs EXCEPT ![p] = k] /\ UNCHANGED <<oracleAdmin, oracleUpgrade, feeders, minFresh>>
    BY <1>7 DEF Oracle!SetPair
  <2>5. QED
    BY <1>1, <1>7, <2>2, <2>3, <2>4, SetPairKeeps
<1>8. ASSUME NEW p \in Oracle!Pairs, NEW bps \in ChangeLimits, Oracle!SetMaxRateChangePerUpdate(p, bps)
      PROVE  OracleInv' /\ PricesStay
  <2> DEFINE k == [pairs[p] EXCEPT !.limit = bps]
  <2>1. /\ k \in PairRecord /\ k.ring = pairs[p].ring /\ k.quotes = pairs[p].quotes
        /\ k.flagged = pairs[p].flagged /\ k.peg = pairs[p].peg
    BY <1>1 DEF PairRecord
  <2>2. Oracle!SetPair(p, k)
    BY <1>8 DEF Oracle!SetMaxRateChangePerUpdate
  <2>3. QED
    BY <1>7, <2>1, <2>2
<1>9. ASSUME NEW p \in Oracle!Pairs, NEW peg \in Pegs, Oracle!SetPegConfig(p, peg)
      PROVE  OracleInv' /\ PricesStay
  <2> DEFINE k == [pairs[p] EXCEPT !.peg = peg]
  <2>1. peg # Oracle!NoPeg
    BY <1>9 DEF Oracle!SetPegConfig, Oracle!NoPeg
  <2>2. /\ k \in PairRecord /\ k.ring = pairs[p].ring /\ k.quotes = pairs[p].quotes
        /\ k.flagged = pairs[p].flagged /\ k.peg = peg
    BY <1>1 DEF PairRecord
  <2>3. Oracle!SetPair(p, k)
    BY <1>9 DEF Oracle!SetPegConfig
  <2>4. QED
    BY <1>7, <2>1, <2>2, <2>3
<1>10. ASSUME NEW p \in Oracle!Pairs, Oracle!RemovePegConfig(p)
       PROVE  OracleInv' /\ PricesStay
  <2> DEFINE k == [pairs[p] EXCEPT !.peg = Oracle!NoPeg, !.flagged = FALSE]
  <2>1. k \in PairRecord /\ k.ring = pairs[p].ring /\ k.quotes = pairs[p].quotes /\ k.flagged = FALSE
    BY <1>1 DEF PairRecord
  <2>2. /\ pairs' = [pairs EXCEPT ![p] = k] /\ strayed' = strayed \ {p}
        /\ UNCHANGED <<oracleAdmin, oracleUpgrade, feeders, minFresh>>
    BY <1>10 DEF Oracle!RemovePegConfig, Oracle!Lift
  <2> HIDE DEF k
  <2>3. FlagInv(k, p \in strayed')
    BY <2>1, <2>2 DEF FlagInv
  <2>4. QED
    BY <1>1, <2>1, <2>2, <2>3, SetPairKeeps
<1>11. ASSUME NEW p \in Oracle!Pairs, Oracle!ClearPegFlag(p)
       PROVE  OracleInv' /\ PricesStay
  <2> DEFINE k == [pairs[p] EXCEPT !.flagged = FALSE]
  <2>1. k \in PairRecord /\ k.ring = pairs[p].ring /\ k.quotes = pairs[p].quotes /\ k.flagged = FALSE
    BY <1>1 DEF PairRecord
  <2>2. /\ pairs' = [pairs EXCEPT ![p] = k] /\ strayed' = strayed \ {p}
        /\ UNCHANGED <<oracleAdmin, oracleUpgrade, feeders, minFresh>>
    BY <1>11 DEF Oracle!ClearPegFlag, Oracle!Lift
  <2> HIDE DEF k
  <2>3. FlagInv(k, p \in strayed')
    BY <2>1, <2>2 DEF FlagInv
  <2>4. QED
    BY <1>1, <2>1, <2>2, <2>3, SetPairKeeps
<1>12. ASSUME NEW p \in Oracle!Pairs, NEW n \in OracleAges, Oracle!SetMaxStaleness(p, n)
       PROVE  OracleInv' /\ PricesStay
  <2> DEFINE k == [pairs[p] EXCEPT !.staleness = n]
  <2>1. n \in Nat
    BY OracleOk
  <2>2. /\ k \in PairRecord /\ k.ring = pairs[p].ring /\ k.quotes = pairs[p].quotes
        /\ k.flagged = pairs[p].flagged /\ k.peg = pairs[p].peg
    BY <1>1, <2>1 DEF PairRecord
  <2>3. Oracle!SetPair(p, k)
    BY <1>12 DEF Oracle!SetMaxStaleness
  <2>4. QED
    BY <1>7, <2>2, <2>3
<1>13. ASSUME NEW p \in Oracle!Pairs, NEW price \in FallbackPrices \cup {0}, Oracle!SetPair(p, [pairs[p] EXCEPT !.fallback = price])
       PROVE  OracleInv' /\ PricesStay
  <2> DEFINE k == [pairs[p] EXCEPT !.fallback = price]
  <2>1. price \in Nat
    BY OracleOk
  <2>2. /\ k \in PairRecord /\ k.ring = pairs[p].ring /\ k.quotes = pairs[p].quotes
        /\ k.flagged = pairs[p].flagged /\ k.peg = pairs[p].peg
    BY <1>1, <2>1 DEF PairRecord
  <2>3. QED
    BY <1>7, <1>13, <2>2
<1>14. ASSUME NEW p \in Oracle!Pairs,
              Oracle!RemoveFallbackFeed(p) \/ \E price \in FallbackPrices : Oracle!SetFallbackFeed(p, price)
       PROVE  OracleInv' /\ PricesStay
  BY <1>13, <1>14 DEF Oracle!RemoveFallbackFeed, Oracle!SetFallbackFeed
<1>15. QED
  BY <1>2, <1>3, <1>4, <1>5, <1>6, <1>8, <1>9, <1>10, <1>11, <1>12, <1>14 DEF Oracle!Setting

(* A price is taken for a pair that has not strayed, and no other.         *)
Taken(p) ==
  /\ p \notin strayed
  /\ \A q \in Oracle!Pairs \ {p} :
       pairs'[q].quotes = pairs[q].quotes /\ pairs'[q].ring = pairs[q].ring /\ published'[q] = published[q]

LEMMA ReportedIs ==
  ASSUME NEW k \in PairRecord, NEW f \in Feeders, NEW price \in Int, oracleNow \in Nat
  PROVE  /\ Oracle!Reported(k, f, price) \in PairRecord
         /\ Oracle!Reported(k, f, price).ring = k.ring
         /\ Oracle!Reported(k, f, price).flagged = k.flagged /\ Oracle!Reported(k, f, price).peg = k.peg
<1> DEFINE known == \E i \in DOMAIN k.order : k.order[i] = f
           q == [price |-> price, time |-> oracleNow]
           quotes == [k.quotes EXCEPT ![f] = q]
           order == IF known THEN k.order ELSE Append(k.order, f)
           r == [k EXCEPT !.quotes = quotes, !.order = order]
<1>1. q \in Quote
  BY DEF Quote
<1>2. quotes \in [Feeders -> Quote] /\ order \in Seq(Feeders)
  BY <1>1 DEF PairRecord
<1>3. Oracle!Reported(k, f, price) = r
  BY DEF Oracle!Reported
<1> HIDE DEF quotes, order
<1>4. r \in PairRecord /\ r.ring = k.ring /\ r.flagged = k.flagged /\ r.peg = k.peg
  BY <1>2 DEF PairRecord
<1> HIDE DEF r
<1>5. QED
  BY <1>3, <1>4

LEMMA SetPriceKeeps ==
  ASSUME OracleInv, NEW f \in Feeders, NEW p \in Oracle!Pairs, NEW price \in Prices, Oracle!SetPrice(f, p, price)
  PROVE  /\ OracleInv'
         /\ PricesStay \/ Taken(p)
<1> DEFINE k == pairs[p]
           log == published[p]
           new == Oracle!Reported(k, f, price)
           median == Oracle!GetPrice(new)
           snap == [price |-> median.price, time |-> oracleNow]
           ring == Oracle!RecordPriceSnapshot(k.ring, snap)
           after == IF median.ok THEN [new EXCEPT !.ring = ring] ELSE new
           more == IF median.ok THEN Oracle!Published(log, snap) ELSE log
<1>1. /\ pairs \in [Oracle!Pairs -> PairRecord] /\ published \in [Oracle!Pairs -> Seq(Quote)]
      /\ k \in PairRecord /\ log \in Seq(Quote) /\ oracleNow \in Nat /\ minFresh \in Nat /\ price \in Int
      /\ RingInv(k.ring, log) /\ UpTo(log, oracleNow) /\ k.ring \in RingRecord
  BY OracleOk DEF OracleInv, OracleTypes, PairRecord, RingRecord
<1>2. new \in PairRecord /\ new.ring = k.ring /\ new.flagged = k.flagged /\ new.peg = k.peg
  <2> HIDE DEF k
  <2>1. QED
    BY <1>1, ReportedIs
<1>3. median.price \in Int
  <2> HIDE DEF new
  <2>1. QED
    BY <1>1, <1>2, GetPriceIs
<1>4. /\ ~(k.peg # Oracle!NoPeg /\ k.flagged)
      /\ UNCHANGED <<oracleAdmin, oracleUpgrade, feeders, minFresh, oraclePaused, oracleNow>>
  BY DEF Oracle!SetPrice, Oracle!Blocked
<1>5. \/ /\ k.peg # Oracle!NoPeg /\ pairs' = [pairs EXCEPT ![p].flagged = TRUE]
         /\ strayed' = strayed \cup {p} /\ UNCHANGED published
      \/ pairs' = [pairs EXCEPT ![p] = after] /\ published' = [published EXCEPT ![p] = more] /\ UNCHANGED strayed
  BY DEF Oracle!SetPrice, Oracle!OffPeg
<1>6. CASE /\ k.peg # Oracle!NoPeg /\ pairs' = [pairs EXCEPT ![p].flagged = TRUE]
           /\ strayed' = strayed \cup {p} /\ UNCHANGED published
  <2> DEFINE marked == [k EXCEPT !.flagged = TRUE]
  <2>1. marked \in PairRecord /\ marked.ring = k.ring /\ marked.quotes = k.quotes /\ marked.flagged /\ marked.peg = k.peg
    BY <1>1 DEF PairRecord
  <2>2. pairs' = [pairs EXCEPT ![p] = marked]
    BY <1>6
  <2>3. FlagInv(marked, p \in strayed')
    BY <1>6, <2>1 DEF FlagInv
  <2> HIDE DEF marked
  <2>4. QED
    BY <1>4, <1>6, <2>1, <2>2, <2>3, SetPairKeeps
<1>7. CASE pairs' = [pairs EXCEPT ![p] = after] /\ published' = [published EXCEPT ![p] = more] /\ UNCHANGED strayed
  <2>1. snap \in Quote /\ snap.time = oracleNow
    BY <1>1, <1>3 DEF Quote
  <2> HIDE DEF k, log, new, median, snap
  <2>2. /\ ring \in RingRecord /\ Oracle!Published(log, snap) \in Seq(Quote)
        /\ RingInv(ring, Oracle!Published(log, snap)) /\ UpTo(Oracle!Published(log, snap), oracleNow)
    <3>1. CASE Len(log) > 0 /\ log[Len(log)].time = snap.time
      BY <1>1, <2>1, <3>1, MedianReplaced
    <3>2. CASE ~(Len(log) > 0 /\ log[Len(log)].time = snap.time)
      BY <1>1, <2>1, <3>2, MedianAdded
    <3>3. QED
      BY <3>1, <3>2
  <2> HIDE DEF ring
  <2>3. after \in PairRecord /\ after.ring = IF median.ok THEN ring ELSE k.ring
    BY <1>2, <2>2 DEF PairRecord, RingRecord
  <2>4. more \in Seq(Quote) /\ RingInv(after.ring, more) /\ UpTo(more, oracleNow)
    BY <1>1, <2>2, <2>3
  <2>5. after.flagged = k.flagged /\ after.peg = k.peg
    BY <1>2, <2>2 DEF PairRecord, RingRecord
  <2> HIDE DEF after, more
  <2>6. FlagInv(k, p \in strayed)
    BY DEF OracleInv, k
  <2>7. FlagInv(after, p \in strayed')
    BY <1>7, <2>5, <2>6 DEF FlagInv
  <2>8. OracleInv'
    BY <1>4, <1>7, <2>3, <2>4, <2>7, PairChanged
  <2>9. \A q1 \in Oracle!Pairs \ {p} : pairs'[q1] = pairs[q1] /\ published'[q1] = published[q1]
    BY <1>1, <1>7
  <2>10. p \notin strayed
    BY <1>4, <2>6 DEF FlagInv
  <2>11. QED
    BY <2>8, <2>9, <2>10 DEF Taken
<1>8. QED
  BY <1>5, <1>6, <1>7

LEMMA TickKeeps ==
  ASSUME OracleInv, Oracle!Tick
  PROVE  OracleInv' /\ PricesStay
<1>1. oracleNow \in Nat /\ oracleNow' = oracleNow + 1 /\ UNCHANGED <<pairs, published, strayed>>
  BY DEF OracleInv, OracleTypes, Oracle!Tick, Oracle!state
<1>2. OracleTypes'
  BY <1>1 DEF OracleInv, OracleTypes, Oracle!Tick, Oracle!state
<1>3. \A log : UpTo(log, oracleNow) => UpTo(log, oracleNow')
  BY <1>1 DEF UpTo
<1>4. QED
  BY <1>1, <1>2, <1>3 DEF OracleInv, PricesStay

(* A step that takes no price, or one for a pair that has not strayed.     *)
LEMMA WaitKept ==
  ASSUME OracleInv', PricesStay \/ \E p \in Oracle!Pairs : Taken(p)
  PROVE  Oracle!StrayedPairWaitsStep
<1>1. ASSUME NEW p \in Oracle!Pairs, p \in strayed
      PROVE  pairs'[p].quotes = pairs[p].quotes /\ pairs'[p].ring = pairs[p].ring /\ published'[p] = published[p]
  BY <1>1 DEF PricesStay, Taken
<1>2. \A p \in Oracle!Pairs : pairs'[p].flagged => p \in strayed'
  BY DEF OracleInv, FlagInv
<1>3. QED
  BY <1>1, <1>2 DEF Oracle!StrayedPairWaitsStep, Oracle!Blocked

LEMMA OracleKeeps ==
  ASSUME OracleInv, OracleStep
  PROVE  OracleInv' /\ Oracle!StrayedPairWaitsStep
<1>1. ASSUME NEW f \in Feeders, NEW p \in Oracle!Pairs, NEW price \in Prices, Oracle!SetPrice(f, p, price)
      PROVE  OracleInv' /\ (PricesStay \/ \E q \in Oracle!Pairs : Taken(q))
  BY <1>1, SetPriceKeeps
<1>2. ASSUME NEW b \in BOOLEAN, Oracle!SetPause(b) PROVE OracleInv' /\ PricesStay
  BY <1>2 DEF OracleInv, OracleTypes, PricesStay, Oracle!SetPause
<1>3. OracleInv' /\ (PricesStay \/ \E q \in Oracle!Pairs : Taken(q))
  BY <1>1, <1>2, SettingKeeps, TickKeeps DEF OracleStep, Oracle!Next
<1>4. QED
  BY <1>3, WaitKept

LEMMA OracleClaims ==
  ASSUME OracleInv
  PROVE  PricesFaithful
<1>1. minFresh \in Nat /\ oracleNow \in Nat /\ Quantities \subseteq Int /\ Decimals \subseteq Nat
  BY OracleOk DEF OracleInv, OracleTypes
<1>2. ASSUME NEW p \in Oracle!Pairs
      PROVE  /\ pairs[p] \in PairRecord /\ published[p] \in Seq(Quote)
             /\ RingInv(pairs[p].ring, published[p]) /\ UpTo(published[p], oracleNow)
             /\ Oracle!GetPrice(pairs[p]).price \in Int /\ MedianAnswered(pairs[p])
  <2>1. /\ pairs[p] \in PairRecord /\ published[p] \in Seq(Quote)
        /\ RingInv(pairs[p].ring, published[p]) /\ UpTo(published[p], oracleNow)
    BY DEF OracleInv, OracleTypes
  <2>2. QED
    BY <1>1, <2>1, GetPriceIs
<1>3. Oracle!MedianOfFresh
  BY <1>2, OracleCardinality DEF MedianAnswered, Oracle!MedianOfFresh
<1>4. Oracle!HistoryFaithful
  BY <1>1, <1>2, HistoryIs DEF Oracle!HistoryFaithful
<1>5. Oracle!ConversionRoundsDown
  BY <1>1, <1>2, ConversionIs DEF Oracle!ConversionRoundsDown
<1>6. QED
  BY <1>3, <1>4, <1>5 DEF PricesFaithful, Oracle!PricesFaithful

-----------------------------------------------------------------------------
(* All of them at once: a step of one leaves the others as they are.       *)

ServicesInv == PositionInv /\ TrancheInv /\ RewardInv /\ QueueInv /\ OracleInv

LEMMA PositionStays ==
  ASSUME PositionInv, UNCHANGED <<poolVars, fracVars, marketVars>>
  PROVE  PositionInv'
<1>1. PoolTypes' /\ FracTypes' /\ MarketTypes'
  BY DEF PositionInv, PoolTypes, FracTypes, MarketTypes, poolVars, fracVars, marketVars
<1>2. WrapsOk' /\ SharesKept'
  BY DEF PositionInv, WrapsOk, SharesKept, Frac!Closed, poolVars, fracVars
<1>3. QED
  BY <1>1, <1>2 DEF PositionInv

LEMMA OthersStay ==
  /\ TrancheInv /\ UNCHANGED trancheVars => TrancheInv'
  /\ RewardInv /\ UNCHANGED rewardVars => RewardInv'
  /\ QueueInv /\ UNCHANGED queueVars => QueueInv'
  /\ OracleInv /\ UNCHANGED oracleVars => OracleInv'
<1>1. TrancheInv /\ UNCHANGED trancheVars => TrancheInv'
  BY DEF TrancheInv, trancheVars
<1>2. RewardInv /\ UNCHANGED rewardVars => RewardInv'
  BY DEF RewardInv, rewardVars
<1>3. QueueInv /\ UNCHANGED queueVars => QueueInv'
  BY DEF QueueInv, QueueState, queueVars
<1>4. OracleInv /\ UNCHANGED oracleVars => OracleInv'
  BY DEF OracleInv, OracleTypes, oracleVars
<1>5. QED
  BY <1>1, <1>2, <1>3, <1>4

LEMMA ServicesStart == ServicesInit => ServicesInv
  BY PositionInit, TrancheStarts, RewardStarts, QueueStarts, OracleStarts DEF ServicesInit, ServicesInv

LEMMA ServicesKept ==
  ASSUME ServicesInv, [ServicesNext]_servicesVars
  PROVE  /\ ServicesInv'
         /\ [Market!TradeIsFairStep]_<<poolVars, marketVars>>
         /\ [Oracle!StrayedPairWaitsStep]_oracleVars
<1>1. CASE PositionStep
  <2>1. PositionInv' /\ Market!TradeIsFairStep
    BY <1>1, PositionStepKeeps DEF ServicesInv
  <2>2. UNCHANGED <<trancheVars, rewardVars, oracleVars, queueVars>>
    BY <1>1 DEF PositionStep
  <2>3. QED
    BY <2>1, <2>2, OthersStay DEF ServicesInv
<1>2. CASE TrancheStep
  <2>1. TrancheInv'
    BY <1>2, TrancheKeeps DEF ServicesInv
  <2>2. UNCHANGED <<poolVars, fracVars, marketVars, rewardVars, oracleVars, queueVars>>
    BY <1>2 DEF TrancheStep
  <2>3. QED
    BY <2>1, <2>2, PositionStays, OthersStay DEF ServicesInv
<1>3. CASE RewardStep
  <2>1. RewardInv'
    BY <1>3, RewardKeeps DEF ServicesInv
  <2>2. UNCHANGED <<poolVars, fracVars, marketVars, trancheVars, oracleVars, queueVars>>
    BY <1>3 DEF RewardStep
  <2>3. QED
    BY <2>1, <2>2, PositionStays, OthersStay DEF ServicesInv
<1>4. CASE OracleStep
  <2>1. OracleInv' /\ Oracle!StrayedPairWaitsStep
    BY <1>4, OracleKeeps DEF ServicesInv
  <2>2. UNCHANGED <<poolVars, fracVars, marketVars, trancheVars, rewardVars, queueVars>>
    BY <1>4 DEF OracleStep
  <2>3. QED
    BY <2>1, <2>2, PositionStays, OthersStay DEF ServicesInv
<1>5. CASE QueueStep
  <2>1. QueueInv'
    BY <1>5, QueueKeeps DEF ServicesInv
  <2>2. UNCHANGED <<poolVars, fracVars, marketVars, trancheVars, rewardVars, oracleVars>>
    BY <1>5 DEF QueueStep
  <2>3. QED
    BY <2>1, <2>2, PositionStays, OthersStay DEF ServicesInv
<1>6. CASE UNCHANGED servicesVars
  <2>1. UNCHANGED <<poolVars, fracVars, marketVars, trancheVars, rewardVars, oracleVars, queueVars>>
    BY <1>6 DEF servicesVars
  <2>2. QED
    BY <2>1, PositionStays, OthersStay DEF ServicesInv
<1>7. QED
  BY <1>1, <1>2, <1>3, <1>4, <1>5, <1>6 DEF ServicesNext

(* What is promised is covered: redemptions by the payout booked for their *)
(* wrap, shares by the balances, tranche positions by the funding, bonuses *)
(* by the budget; and no request of the withdrawal queue is served before  *)
(* an older one (redeem, settle, fund_tranche, claim_referral_reward,      *)
(* process_queue).                                                         *)
THEOREM ClaimsAlwaysCovered == ServicesSpec => []ClaimsCovered
<1>1. ServicesInv => ClaimsCovered
  BY PositionClaims, TrancheClaims, RewardClaims, QueueClaims DEF ServicesInv, ClaimsCovered
<1>2. ServicesInv /\ [ServicesNext]_servicesVars => ServicesInv'
  BY ServicesKept
<1>3. QED
  BY <1>1, <1>2, ServicesStart, PTL DEF ServicesSpec

(* An investor who pays pays exactly a seller's asking price, which the    *)
(* seller and the fee account share to the last unit whatever the fee      *)
(* became, and holds a position then (list_position, buy_position).        *)
THEOREM TradesAlwaysFair == ServicesSpec => TradeIsFair
<1>1. ServicesInv /\ [ServicesNext]_servicesVars => ServicesInv'
  BY ServicesKept
<1>2. ServicesInv /\ [ServicesNext]_servicesVars => [Market!TradeIsFairStep]_<<poolVars, marketVars>>
  BY ServicesKept
<1>3. QED
  BY <1>1, <1>2, ServicesStart, PTL DEF ServicesSpec, TradeIsFair

(* get_price answers a median of fresh reports, get_price_at the median    *)
(* recorded for its time as long as the ring keeps it, and a conversion    *)
(* gives no more than the price says (calculate_median, get_price,         *)
(* record_price_snapshot, get_price_at, convert_with_decimals).            *)
THEOREM PricesAlwaysFaithful == ServicesSpec => []PricesFaithful
<1>1. ServicesInv => PricesFaithful
  BY OracleClaims DEF ServicesInv
<1>2. ServicesInv /\ [ServicesNext]_servicesVars => ServicesInv'
  BY ServicesKept
<1>3. QED
  BY <1>1, <1>2, ServicesStart, PTL DEF ServicesSpec

(* From a report off an auto_flag peg until the admin lifts the flag, no   *)
(* price of the pair changes, for any number of feeders and any pegs set   *)
(* in between; and only a pair that strayed is refused (set_price,         *)
(* set_peg_config, clear_peg_flag, remove_peg_config).                     *)
THEOREM StrayedPairsAlwaysWait == ServicesSpec => StrayedPairWaits
<1>1. ServicesInv /\ [ServicesNext]_servicesVars => ServicesInv'
  BY ServicesKept
<1>2. ServicesInv /\ [ServicesNext]_servicesVars => [Oracle!StrayedPairWaitsStep]_oracleVars
  BY ServicesKept
<1>3. QED
  BY <1>1, <1>2, ServicesStart, PTL DEF ServicesSpec, StrayedPairWaits
==================================================================================
