--------------------------- MODULE DeploymentProof ---------------------------
(***************************************************************************)
(* Migrations are atomic, alone and sufficient, for any number of kills    *)
(* and restarts.  First the statements, one by one: what each needs is     *)
(* what those before it leave.  Then the paths of Alembic, which are rests *)
(* of these two lists; then the containers that run them.                  *)
(***************************************************************************)
EXTENDS Deployment, SequenceTheorems, FiniteSetTheorems, TLAPS

(* A path has at most three revisions, so no induction is needed.          *)
LEMMA Flattened ==
  ASSUME NEW s, Len(s) \in 1 .. 3
  PROVE  FlattenSeq(s) = IF Len(s) = 1 THEN s[1]
                         ELSE IF Len(s) = 2 THEN s[1] \o s[2] ELSE (s[1] \o s[2]) \o s[3]
<1>0. \A i \in 1 .. Len(s) : i = 1 \/ i = 2 \/ i = 3
  <2>1. ASSUME NEW n \in 1 .. 3
        PROVE  \A i \in 1 .. n : i = 1 \/ i = 2 \/ i = 3
    BY <2>1
  <2> QED
    BY <2>1, Zenon
<1> DEFINE body(g) == [i \in 1 .. Len(s) |-> IF i = 1 THEN s[i] ELSE g[i - 1] \o s[i]]
           two == s[1] \o s[2]
           three == two \o s[3]
           sum == [i \in 1 .. Len(s) |-> IF i = 1 THEN s[1] ELSE IF i = 2 THEN two ELSE three]
           it == CHOOSE g : g = body(g)
<1>1. sum = body(sum)
  <2>1. ASSUME NEW i \in 1 .. Len(s), i # 1
        PROVE  sum[i] = sum[i - 1] \o s[i]
    <3>1. CASE i = 2
      <4>1. sum[i] = two /\ sum[i - 1] = s[1]
        <5> HIDE DEF two, three
        <5> QED
          BY <2>1, <3>1
      <4> QED
        BY <3>1, <4>1, Zenon
    <3>2. CASE i = 3
      <4>1. sum[i] = three /\ sum[i - 1] = two
        <5> HIDE DEF two, three
        <5> QED
          BY <2>1, <3>2
      <4> QED
        BY <3>2, <4>1, Zenon
    <3>3. i = 2 \/ i = 3
      BY <1>0, <2>1, Zenon
    <3> QED
      BY <3>1, <3>2, <3>3, Zenon
  <2>2. ASSUME NEW i \in 1 .. Len(s)
        PROVE  sum[i] = IF i = 1 THEN s[i] ELSE sum[i - 1] \o s[i]
    <3> HIDE DEF two, three
    <3>1. CASE i = 1
      BY <2>2, <3>1
    <3>2. CASE i # 1
      BY <2>1, <3>2, Zenon
    <3> QED
      BY <3>1, <3>2
  <2> QED
    BY <2>2, Zenon
<1>2. it = body(it)
  BY <1>1, Zenon
<1>3. FlattenSeq(s) = it[Len(s)]
  <2>1. Len(s) # 0
    OBVIOUS
  <2> QED
    BY <2>1 DEF FlattenSeq
<1> HIDE DEF it, sum
<1>4. it[1] = s[1]
  BY <1>2
<1>5. Len(s) > 1 => it[2] = it[1] \o s[2]
  <2>1. Len(s) > 1 => 2 \in 1 .. Len(s) /\ 2 # 1 /\ 2 - 1 = 1
    OBVIOUS
  <2> QED
    BY <1>2, <2>1, Zenon
<1>6. Len(s) > 2 => it[3] = it[2] \o s[3]
  <2>1. Len(s) > 2 => 3 \in 1 .. Len(s) /\ 3 # 1 /\ 3 - 1 = 2
    OBVIOUS
  <2> QED
    BY <1>2, <2>1, Zenon
<1>7. CASE Len(s) = 1
  BY <1>3, <1>4, <1>7
<1>8. CASE Len(s) = 2
  <2>1. Len(s) > 1 /\ Len(s) # 1
    BY <1>8
  <2> QED
    BY <1>3, <1>4, <1>5, <1>8, <2>1, Zenon
<1>9. CASE Len(s) = 3
  <2>1. Len(s) > 1 /\ Len(s) > 2 /\ Len(s) # 1 /\ Len(s) # 2
    BY <1>9
  <2> QED
    BY <1>3, <1>4, <1>5, <1>6, <1>9, <2>1, Zenon
<1>10. Len(s) = 1 \/ Len(s) = 2 \/ Len(s) = 3
  OBVIOUS
<1> QED
  BY <1>7, <1>8, <1>9, <1>10, Zenon
-----------------------------------------------------------------------------
(* All that `alembic upgrade head` runs on an empty database, and all that *)
(* `alembic downgrade base` runs at the head.                              *)
Up19 == <<
  VersionTable,
  CreateTable("users", {}),
  CreateIndex(UniqueIndex("users", "email")),
  CreateTable("photos", {Cascade("photos", "owner_id", "users")}),
  CreateIndex(Index("photos", "owner_id")),
  CreateTable("thumbnails", {Cascade("thumbnails", "photo_id", "photos")}),
  CreateIndex(UniqueIndex("thumbnails", "photo_id")),
  Stamp(0, 1),
  CreateTable("flags", {Cascade("flags", "photo_id", "photos"),
                        Cascade("flags", "reporter_id", "users"),
                        SetNull("flags", "resolved_by_id", "users"),
                        Unique("flags", "uq_flag_photo_reporter")}),
  CreateIndex(Index("flags", "photo_id")),
  CreateIndex(Index("flags", "reporter_id")),
  CreateIndex(Index("flags", "status")),
  CreateTable("moderation_actions", {SetNull("moderation_actions", "moderator_id", "users")}),
  CreateIndex(Index("moderation_actions", "photo_id")),
  Stamp(1, 2),
  CreateTable("notifications", {}),
  CreateIndex(Index("notifications", "recipient_email")),
  CreateIndex(Index("notifications", "status")),
  Stamp(2, 3) >>

Down16 == <<
  DropIndex(Index("notifications", "status")),
  DropIndex(Index("notifications", "recipient_email")),
  DropTable("notifications"),
  Stamp(3, 2),
  DropTable("moderation_actions"),
  DropIndex(Index("flags", "status")),
  DropIndex(Index("flags", "reporter_id")),
  DropIndex(Index("flags", "photo_id")),
  DropTable("flags"),
  Stamp(2, 1),
  DropTable("thumbnails"),
  DropIndex(Index("photos", "owner_id")),
  DropTable("photos"),
  DropIndex(UniqueIndex("users", "email")),
  DropTable("users"),
  Stamp(1, 0) >>

Rest(all, k) == [i \in 1 .. Len(all) - k |-> all[k + i]]

(* Where in these sequences a path starts.                                 *)
UpFrom(r) == CASE r = 0 -> 1 [] r = 1 -> 8 [] r = 2 -> 15 [] r = 3 -> 19
DownFrom(r) == CASE r = 3 -> 0 [] r = 2 -> 4 [] r = 1 -> 10 [] r = 0 -> 16

(* How many statements there are, up and down.                             *)
LEMMA Lengths == Len(Up19) = 19 /\ Len(Down16) = 16
BY DEF Up19, Down16

LEMMA Newest3 == Newest = 3 /\ Base = 0
BY DEF Newest, Base, Upgrades

(* Each revision is a slice of the statements up.                          *)
LEMMA UpParts ==
  /\ Append(Upgrades[1], Stamp(0, 1)) = [i \in 1 .. 7 |-> Up19[1 + i]]
  /\ Append(Upgrades[2], Stamp(1, 2)) = [i \in 1 .. 7 |-> Up19[8 + i]]
  /\ Append(Upgrades[3], Stamp(2, 3)) = [i \in 1 .. 4 |-> Up19[15 + i]]
<1>1. Append(Upgrades[1], Stamp(0, 1)) = [i \in 1 .. 7 |-> Up19[1 + i]]
  BY DEF Up19, Upgrades, Upgrade1
<1>2. Append(Upgrades[2], Stamp(1, 2)) = [i \in 1 .. 7 |-> Up19[8 + i]]
  BY DEF Up19, Upgrades, Upgrade2
<1>3. Append(Upgrades[3], Stamp(2, 3)) = [i \in 1 .. 4 |-> Up19[15 + i]]
  BY DEF Up19, Upgrades, Upgrade3
<1> QED
  BY <1>1, <1>2, <1>3

(* Each revision is a slice of the statements down.                        *)
LEMMA DownParts ==
  /\ Append(Downgrades[3], Stamp(3, 2)) = [i \in 1 .. 4 |-> Down16[0 + i]]
  /\ Append(Downgrades[2], Stamp(2, 1)) = [i \in 1 .. 6 |-> Down16[4 + i]]
  /\ Append(Downgrades[1], Stamp(1, 0)) = [i \in 1 .. 6 |-> Down16[10 + i]]
<1>1. Append(Downgrades[3], Stamp(3, 2)) = [i \in 1 .. 4 |-> Down16[0 + i]]
  BY DEF Down16, Downgrades, Downgrade3
<1>2. Append(Downgrades[2], Stamp(2, 1)) = [i \in 1 .. 6 |-> Down16[4 + i]]
  BY DEF Down16, Downgrades, Downgrade2
<1>3. Append(Downgrades[1], Stamp(1, 0)) = [i \in 1 .. 6 |-> Down16[10 + i]]
  BY DEF Down16, Downgrades, Downgrade1
<1> QED
  BY <1>1, <1>2, <1>3

(* n elements of a sequence from the one after a.                          *)
Slice(f, a, n) == [i \in 1 .. n |-> f[a + i]]

Joins(f, a, m, b, n, c) == Slice(f, a, m) \o Slice(f, b, n) = Slice(f, a, c)

(* Adjacent slices make a slice.                                           *)
LEMMA Glue ==
  ASSUME NEW f, NEW a \in Nat, NEW m \in Nat, NEW n \in Nat,
         NEW b \in Nat, b = a + m, NEW c \in Nat, c = m + n
  PROVE  Joins(f, a, m, b, n, c)
<1> DEFINE S == {f[a + i] : i \in 1 .. c}
           s == Slice(f, a, m)
           t == Slice(f, b, n)
           u == Slice(f, a, c)
<1>0. \A i \in 1 .. c : f[a + i] \in S
  OBVIOUS
<1> HIDE DEF S
<1>1. s \in Seq(S) /\ Len(s) = m /\ \A i \in 1 .. m : s[i] = f[a + i]
  <2>1. \A i \in 1 .. m : f[a + i] \in S
    BY <1>0
  <2> QED
    BY <2>1 DEF Slice
<1>2. t \in Seq(S) /\ Len(t) = n /\ \A i \in 1 .. n : t[i] = f[b + i]
  <2>1. ASSUME NEW i \in 1 .. n
        PROVE  f[b + i] \in S
    <3>1. m + i \in 1 .. c /\ a + (m + i) = b + i
      OBVIOUS
    <3> QED
      BY <1>0, <3>1
  <2> QED
    BY <2>1 DEF Slice
<1>3. u \in Seq(S) /\ Len(u) = c /\ \A i \in 1 .. c : u[i] = f[a + i]
  BY <1>0 DEF Slice
<1> HIDE DEF s, t, u
<1>4. /\ s \o t \in Seq(S)
      /\ Len(s \o t) = c
      /\ \A i \in 1 .. c : (s \o t)[i] = IF i <= m THEN s[i] ELSE t[i - m]
  <2> DEFINE v == s \o t
  <2>1. /\ v \in Seq(S)
        /\ Len(v) = Len(s) + Len(t)
        /\ \A i \in 1 .. Len(s) + Len(t) : v[i] = IF i <= Len(s) THEN s[i] ELSE t[i - Len(s)]
    BY <1>1, <1>2, ConcatProperties, Zenon
  <2>2. Len(s) = m /\ Len(s) + Len(t) = c
    BY <1>1, <1>2
  <2> QED
    BY <2>1, <2>2, Zenon
<1>5. \A i \in 1 .. c : (s \o t)[i] = u[i]
  <2>1. ASSUME NEW i \in 1 .. c
        PROVE  (IF i <= m THEN s[i] ELSE t[i - m]) = f[a + i]
    <3>1. CASE i <= m
      BY <1>1, <3>1
    <3>2. CASE ~ (i <= m)
      <4>1. i - m \in 1 .. n /\ b + (i - m) = a + i
        BY <3>2
      <4>2. t[i - m] = f[b + (i - m)]
        BY <1>2, <4>1
      <4> QED
        BY <3>2, <4>1, <4>2
    <3> QED
      BY <3>1, <3>2
  <2> QED
    BY <1>3, <1>4, <2>1
<1>6. s \o t = u
  BY <1>3, <1>4, <1>5, SeqEqual
<1> QED
  BY <1>6, Zenon DEF s, t, u, Joins

(* The path of an upgrade is a rest of the statements up.                  *)
LEMMA UpgradePaths ==
  ASSUME NEW r \in 0 .. 3
  PROVE  UpgradePath(r) = Rest(Up19, UpFrom(r))
<1> DEFINE F == [i \in 1 .. 3 - r |-> Append(Upgrades[r + i], Stamp(r + i - 1, r + i))]
<1>0. UpgradePath(r) = FlattenSeq(F)
  BY Newest3 DEF UpgradePath
<1>1. Len(F) = 3 - r
  OBVIOUS
<1>2. /\ Append(Upgrades[1], Stamp(0, 1)) = Slice(Up19, 1, 7)
      /\ Append(Upgrades[2], Stamp(1, 2)) = Slice(Up19, 8, 7)
      /\ Append(Upgrades[3], Stamp(2, 3)) = Slice(Up19, 15, 4)
  BY UpParts DEF Slice
<1>3. Rest(Up19, UpFrom(r)) = Slice(Up19, UpFrom(r), 19 - UpFrom(r))
  BY Lengths DEF Rest, Slice
<1>4. CASE r = 3
  <2>1. FlattenSeq(F) = F
    BY <1>1, <1>4 DEF FlattenSeq
  <2>2. F = <<>> /\ Slice(Up19, 19, 0) = <<>>
    BY <1>4 DEF Slice
  <2>3. UpFrom(r) = 19 /\ 19 - UpFrom(r) = 0
    BY <1>4 DEF UpFrom
  <2> QED
    BY <1>0, <1>3, <2>1, <2>2, <2>3
<1>5. CASE r = 2
  <2>1. Len(F) = 1 /\ F[1] = Append(Upgrades[3], Stamp(2, 3))
    BY <1>1, <1>5
  <2> HIDE DEF F
  <2>2. FlattenSeq(F) = F[1]
    <3>1. Len(F) \in 1 .. 3
      BY <2>1
    <3> QED
      BY <2>1, <3>1, Flattened, Zenon
  <2>3. UpFrom(r) = 15 /\ 19 - UpFrom(r) = 4
    BY <1>5 DEF UpFrom
  <2> QED
    BY <1>0, <1>2, <1>3, <2>1, <2>2, <2>3
<1>6. CASE r = 1
  <2>1. /\ Len(F) = 2
        /\ F[1] = Append(Upgrades[2], Stamp(1, 2))
        /\ F[2] = Append(Upgrades[3], Stamp(2, 3))
    BY <1>1, <1>6
  <2> HIDE DEF F
  <2>2. FlattenSeq(F) = F[1] \o F[2]
    <3>1. Len(F) \in 1 .. 3 /\ Len(F) # 1
      BY <2>1
    <3> QED
      BY <2>1, <3>1, Flattened, Zenon
  <2>3. UpFrom(r) = 8 /\ 19 - UpFrom(r) = 11
    BY <1>6 DEF UpFrom
  <2>4. Slice(Up19, 8, 7) \o Slice(Up19, 15, 4) = Slice(Up19, 8, 11)
    <3>1. Joins(Up19, 8, 7, 15, 4, 11)
      <4>1. 8 \in Nat /\ 7 \in Nat /\ 4 \in Nat /\ 15 \in Nat /\ 11 \in Nat
        OBVIOUS
      <4>2. 15 = 8 + 7 /\ 11 = 7 + 4
        OBVIOUS
      <4> QED
        BY <4>1, <4>2, Glue, Zenon
    <3> QED
      BY <3>1, Zenon DEF Joins
  <2> QED
    BY <1>0, <1>2, <1>3, <2>1, <2>2, <2>3, <2>4, Zenon
<1>7. CASE r = 0
  <2>1. /\ Len(F) = 3
        /\ F[1] = Append(Upgrades[1], Stamp(0, 1))
        /\ F[2] = Append(Upgrades[2], Stamp(1, 2))
        /\ F[3] = Append(Upgrades[3], Stamp(2, 3))
    BY <1>1, <1>7
  <2> HIDE DEF F
  <2>2. FlattenSeq(F) = (F[1] \o F[2]) \o F[3]
    <3>1. Len(F) \in 1 .. 3 /\ Len(F) # 1 /\ Len(F) # 2
      BY <2>1
    <3> QED
      BY <2>1, <3>1, Flattened, Zenon
  <2>3. UpFrom(r) = 1 /\ 19 - UpFrom(r) = 18
    BY <1>7 DEF UpFrom
  <2>4. (Slice(Up19, 1, 7) \o Slice(Up19, 8, 7)) \o Slice(Up19, 15, 4) = Slice(Up19, 1, 18)
    <3>1. Slice(Up19, 1, 7) \o Slice(Up19, 8, 7) = Slice(Up19, 1, 14)
      <4>1. Joins(Up19, 1, 7, 8, 7, 14)
        <5>1. 1 \in Nat /\ 7 \in Nat /\ 7 \in Nat /\ 8 \in Nat /\ 14 \in Nat
          OBVIOUS
        <5>2. 8 = 1 + 7 /\ 14 = 7 + 7
          OBVIOUS
        <5> QED
          BY <5>1, <5>2, Glue, Zenon
      <4> QED
        BY <4>1, Zenon DEF Joins
    <3>2. Slice(Up19, 1, 14) \o Slice(Up19, 15, 4) = Slice(Up19, 1, 18)
      <4>1. Joins(Up19, 1, 14, 15, 4, 18)
        <5>1. 1 \in Nat /\ 14 \in Nat /\ 4 \in Nat /\ 15 \in Nat /\ 18 \in Nat
          OBVIOUS
        <5>2. 15 = 1 + 14 /\ 18 = 14 + 4
          OBVIOUS
        <5> QED
          BY <5>1, <5>2, Glue, Zenon
      <4> QED
        BY <4>1, Zenon DEF Joins
    <3> QED
      BY <3>1, <3>2, Zenon
  <2> QED
    BY <1>0, <1>2, <1>3, <2>1, <2>2, <2>3, <2>4, Zenon
<1> QED
  BY <1>4, <1>5, <1>6, <1>7

(* The path of a downgrade is a rest of the statements down.               *)
LEMMA DowngradePaths ==
  ASSUME NEW r \in 0 .. 3
  PROVE  DowngradePath(r) = Rest(Down16, DownFrom(r))
<1> DEFINE F == [i \in 1 .. r |-> Append(Downgrades[r + 1 - i], Stamp(r + 1 - i, r - i))]
<1>0. DowngradePath(r) = FlattenSeq(F)
  BY DEF DowngradePath
<1>1. Len(F) = r
  OBVIOUS
<1>2. /\ Append(Downgrades[3], Stamp(3, 2)) = Slice(Down16, 0, 4)
      /\ Append(Downgrades[2], Stamp(2, 1)) = Slice(Down16, 4, 6)
      /\ Append(Downgrades[1], Stamp(1, 0)) = Slice(Down16, 10, 6)
  BY DownParts DEF Slice
<1>3. Rest(Down16, DownFrom(r)) = Slice(Down16, DownFrom(r), 16 - DownFrom(r))
  BY Lengths DEF Rest, Slice
<1>4. CASE r = 0
  <2>1. FlattenSeq(F) = F
    BY <1>1, <1>4 DEF FlattenSeq
  <2>2. F = <<>> /\ Slice(Down16, 16, 0) = <<>>
    BY <1>4 DEF Slice
  <2>3. DownFrom(r) = 16 /\ 16 - DownFrom(r) = 0
    BY <1>4 DEF DownFrom
  <2> QED
    BY <1>0, <1>3, <2>1, <2>2, <2>3
<1>5. CASE r = 1
  <2>1. Len(F) = 1 /\ F[1] = Append(Downgrades[1], Stamp(1, 0))
    BY <1>1, <1>5
  <2> HIDE DEF F
  <2>2. FlattenSeq(F) = F[1]
    <3>1. Len(F) \in 1 .. 3
      BY <2>1
    <3> QED
      BY <2>1, <3>1, Flattened, Zenon
  <2>3. DownFrom(r) = 10 /\ 16 - DownFrom(r) = 6
    BY <1>5 DEF DownFrom
  <2> QED
    BY <1>0, <1>2, <1>3, <2>1, <2>2, <2>3
<1>6. CASE r = 2
  <2>1. /\ Len(F) = 2
        /\ F[1] = Append(Downgrades[2], Stamp(2, 1))
        /\ F[2] = Append(Downgrades[1], Stamp(1, 0))
    BY <1>1, <1>6
  <2> HIDE DEF F
  <2>2. FlattenSeq(F) = F[1] \o F[2]
    <3>1. Len(F) \in 1 .. 3 /\ Len(F) # 1
      BY <2>1
    <3> QED
      BY <2>1, <3>1, Flattened, Zenon
  <2>3. DownFrom(r) = 4 /\ 16 - DownFrom(r) = 12
    BY <1>6 DEF DownFrom
  <2>4. Slice(Down16, 4, 6) \o Slice(Down16, 10, 6) = Slice(Down16, 4, 12)
    <3>1. Joins(Down16, 4, 6, 10, 6, 12)
      <4>1. 4 \in Nat /\ 6 \in Nat /\ 6 \in Nat /\ 10 \in Nat /\ 12 \in Nat
        OBVIOUS
      <4>2. 10 = 4 + 6 /\ 12 = 6 + 6
        OBVIOUS
      <4> QED
        BY <4>1, <4>2, Glue, Zenon
    <3> QED
      BY <3>1, Zenon DEF Joins
  <2> QED
    BY <1>0, <1>2, <1>3, <2>1, <2>2, <2>3, <2>4, Zenon
<1>7. CASE r = 3
  <2>1. /\ Len(F) = 3
        /\ F[1] = Append(Downgrades[3], Stamp(3, 2))
        /\ F[2] = Append(Downgrades[2], Stamp(2, 1))
        /\ F[3] = Append(Downgrades[1], Stamp(1, 0))
    BY <1>1, <1>7
  <2> HIDE DEF F
  <2>2. FlattenSeq(F) = (F[1] \o F[2]) \o F[3]
    <3>1. Len(F) \in 1 .. 3 /\ Len(F) # 1 /\ Len(F) # 2
      BY <2>1
    <3> QED
      BY <2>1, <3>1, Flattened, Zenon
  <2>3. DownFrom(r) = 0 /\ 16 - DownFrom(r) = 16
    BY <1>7 DEF DownFrom
  <2>4. (Slice(Down16, 0, 4) \o Slice(Down16, 4, 6)) \o Slice(Down16, 10, 6) = Slice(Down16, 0, 16)
    <3>1. Slice(Down16, 0, 4) \o Slice(Down16, 4, 6) = Slice(Down16, 0, 10)
      <4>1. Joins(Down16, 0, 4, 4, 6, 10)
        <5>1. 0 \in Nat /\ 4 \in Nat /\ 6 \in Nat /\ 4 \in Nat /\ 10 \in Nat
          OBVIOUS
        <5>2. 4 = 0 + 4 /\ 10 = 4 + 6
          OBVIOUS
        <5> QED
          BY <5>1, <5>2, Glue, Zenon
      <4> QED
        BY <4>1, Zenon DEF Joins
    <3>2. Slice(Down16, 0, 10) \o Slice(Down16, 10, 6) = Slice(Down16, 0, 16)
      <4>1. Joins(Down16, 0, 10, 10, 6, 16)
        <5>1. 0 \in Nat /\ 10 \in Nat /\ 6 \in Nat /\ 10 \in Nat /\ 16 \in Nat
          OBVIOUS
        <5>2. 10 = 0 + 10 /\ 16 = 10 + 6
          OBVIOUS
        <5> QED
          BY <5>1, <5>2, Glue, Zenon
      <4> QED
        BY <4>1, Zenon DEF Joins
    <3> QED
      BY <3>1, <3>2, Zenon
  <2> QED
    BY <1>0, <1>2, <1>3, <2>1, <2>2, <2>3, <2>4, Zenon
<1> QED
  BY <1>4, <1>5, <1>6, <1>7

(* What a statement makes of a database.                                   *)
Effect(d, s) ==
  [version |-> IF s.op = "stamp" THEN s.to ELSE d.version,
   schema |-> (d.schema \ Drops(d.schema, s)) \union Adds(s)]

(* What a transaction sees after a statement.                              *)
LEMMA Executed ==
  ASSUME NEW d, NEW t, NEW s, s.op = "stamp" => s.to \in Nat
  PROVE  View(d, Execute(d, t, s)) = Effect(View(d, t), s)
<1> DEFINE gone == Drops(View(d, t).schema, s)
<1>1. View(d, t).schema = (d.schema \ t.dropped) \union t.added
  BY DEF View
<1>2. /\ Execute(d, t, s).added = (t.added \ gone) \union Adds(s)
      /\ Execute(d, t, s).dropped = t.dropped \union gone
      /\ Execute(d, t, s).version = IF s.op = "stamp" THEN s.to ELSE t.version
  BY DEF Execute
<1> HIDE DEF gone
<1>3. View(d, Execute(d, t, s)).schema = (View(d, t).schema \ gone) \union Adds(s)
  BY <1>1, <1>2 DEF View
<1>4. View(d, Execute(d, t, s)).version = IF s.op = "stamp" THEN s.to ELSE View(d, t).version
  BY <1>2 DEF View, Unwritten
<1> QED
  BY <1>3, <1>4 DEF View, Effect, gone

(* Statements and objects have the fields they were built with.            *)
LEMMA Fields ==
  ASSUME NEW t, NEW c, NEW u
  PROVE  /\ Table(t).table = t /\ Table(t).kind = "table"
         /\ Index(t, c).table = t /\ Index(t, c).kind = "index" /\ Index(t, c).on = c
         /\ UniqueIndex(t, c).table = t /\ UniqueIndex(t, c).kind = "unique_index"
         /\ UniqueIndex(t, c).on = c
         /\ Unique(t, c).table = t /\ Unique(t, c).kind = "unique"
         /\ Cascade(t, c, u).table = t /\ Cascade(t, c, u).kind = "cascade"
         /\ Cascade(t, c, u).to = u
         /\ SetNull(t, c, u).table = t /\ SetNull(t, c, u).kind = "set_null"
         /\ SetNull(t, c, u).to = u
BY DEF Table, Index, UniqueIndex, Unique, Cascade, SetNull

(* The statements up, written out.                                         *)
LEMMA UpFacts ==
  /\ Up19[1].op = "create_table" /\ Up19[1].table = "alembic_version"
  /\ Adds(Up19[1]) = {Table("alembic_version")}
  /\ Up19[2].op = "create_table" /\ Up19[2].table = "users"
  /\ Adds(Up19[2]) = {Table("users")}
  /\ Up19[3].op = "create_index" /\ Up19[3].table = "users"
  /\ Adds(Up19[3]) = {UniqueIndex("users", "email")}
  /\ Up19[4].op = "create_table" /\ Up19[4].table = "photos"
  /\ Adds(Up19[4]) = {Table("photos"), Cascade("photos", "owner_id", "users")}
  /\ Up19[5].op = "create_index" /\ Up19[5].table = "photos"
  /\ Adds(Up19[5]) = {Index("photos", "owner_id")}
  /\ Up19[6].op = "create_table" /\ Up19[6].table = "thumbnails"
  /\ Adds(Up19[6]) = {Table("thumbnails"), Cascade("thumbnails", "photo_id", "photos")}
  /\ Up19[7].op = "create_index" /\ Up19[7].table = "thumbnails"
  /\ Adds(Up19[7]) = {UniqueIndex("thumbnails", "photo_id")}
  /\ Up19[8].op = "stamp" /\ Up19[8].table = "alembic_version"
  /\ Up19[8].from = 0 /\ Up19[8].to = 1 /\ Adds(Up19[8]) = {}
  /\ Up19[9].op = "create_table" /\ Up19[9].table = "flags"
  /\ Adds(Up19[9]) = {Table("flags"), Cascade("flags", "photo_id", "photos"),
                      Cascade("flags", "reporter_id", "users"),
                      SetNull("flags", "resolved_by_id", "users"),
                      Unique("flags", "uq_flag_photo_reporter")}
  /\ Up19[10].op = "create_index" /\ Up19[10].table = "flags"
  /\ Adds(Up19[10]) = {Index("flags", "photo_id")}
  /\ Up19[11].op = "create_index" /\ Up19[11].table = "flags"
  /\ Adds(Up19[11]) = {Index("flags", "reporter_id")}
  /\ Up19[12].op = "create_index" /\ Up19[12].table = "flags"
  /\ Adds(Up19[12]) = {Index("flags", "status")}
  /\ Up19[13].op = "create_table" /\ Up19[13].table = "moderation_actions"
  /\ Adds(Up19[13]) = {Table("moderation_actions"),
                       SetNull("moderation_actions", "moderator_id", "users")}
  /\ Up19[14].op = "create_index" /\ Up19[14].table = "moderation_actions"
  /\ Adds(Up19[14]) = {Index("moderation_actions", "photo_id")}
  /\ Up19[15].op = "stamp" /\ Up19[15].table = "alembic_version"
  /\ Up19[15].from = 1 /\ Up19[15].to = 2 /\ Adds(Up19[15]) = {}
  /\ Up19[16].op = "create_table" /\ Up19[16].table = "notifications"
  /\ Adds(Up19[16]) = {Table("notifications")}
  /\ Up19[17].op = "create_index" /\ Up19[17].table = "notifications"
  /\ Adds(Up19[17]) = {Index("notifications", "recipient_email")}
  /\ Up19[18].op = "create_index" /\ Up19[18].table = "notifications"
  /\ Adds(Up19[18]) = {Index("notifications", "status")}
  /\ Up19[19].op = "stamp" /\ Up19[19].table = "alembic_version"
  /\ Up19[19].from = 2 /\ Up19[19].to = 3 /\ Adds(Up19[19]) = {}
BY DEF Up19, VersionTable, CreateTable, CreateIndex, Stamp, Adds, Table, Index, UniqueIndex

(* The database an upgrade of an empty one sees after k statements.        *)
UpState(k) ==
  [version |-> IF k < 8 THEN 0 ELSE IF k < 15 THEN 1 ELSE IF k < 19 THEN 2 ELSE 3,
   schema |-> UNION {Adds(Up19[i]) : i \in 1 .. k}]

TablesUp == {1, 2, 4, 6, 9, 13, 16}
IndexesUp == {3, 5, 7, 10, 11, 12, 14, 17, 18}
StampsUp == {8, 15, 19}

(* What each of them is.                                                   *)
LEMMA UpKinds ==
  /\ \A i \in 1 .. 19 : i \in TablesUp \/ i \in IndexesUp \/ i \in StampsUp
  /\ \A i \in TablesUp : Up19[i].op = "create_table" /\ Table(Up19[i].table) \in Adds(Up19[i])
  /\ \A i \in IndexesUp : Up19[i].op = "create_index"
  /\ \A i \in StampsUp : Up19[i].op = "stamp" /\ Up19[i].to \in Nat
<1>1. \A i \in 1 .. 19 : i \in TablesUp \/ i \in IndexesUp \/ i \in StampsUp
  BY DEF TablesUp, IndexesUp, StampsUp
<1>2. \A i \in TablesUp : Up19[i].op = "create_table" /\ Table(Up19[i].table) \in Adds(Up19[i])
  BY UpFacts DEF TablesUp
<1>3. \A i \in IndexesUp : Up19[i].op = "create_index"
  BY UpFacts DEF IndexesUp
<1>4. \A i \in StampsUp : Up19[i].op = "stamp" /\ Up19[i].to \in Nat
  BY UpFacts DEF StampsUp
<1> QED
  BY <1>1, <1>2, <1>3, <1>4

(* What a statement creates belongs to its table.                          *)
LEMMA UpOwn ==
  ASSUME NEW i \in 1 .. 19, NEW o \in Adds(Up19[i])
  PROVE  o.table = Up19[i].table
<1>1. \A x \in Adds(Up19[1]) : x.table = Up19[1].table
  BY UpFacts, Fields
<1>2. \A x \in Adds(Up19[2]) : x.table = Up19[2].table
  BY UpFacts, Fields
<1>3. \A x \in Adds(Up19[3]) : x.table = Up19[3].table
  BY UpFacts, Fields
<1>4. \A x \in Adds(Up19[4]) : x.table = Up19[4].table
  BY UpFacts, Fields
<1>5. \A x \in Adds(Up19[5]) : x.table = Up19[5].table
  BY UpFacts, Fields
<1>6. \A x \in Adds(Up19[6]) : x.table = Up19[6].table
  BY UpFacts, Fields
<1>7. \A x \in Adds(Up19[7]) : x.table = Up19[7].table
  BY UpFacts, Fields
<1>8. \A x \in Adds(Up19[8]) : x.table = Up19[8].table
  BY UpFacts, Fields
<1>9. \A x \in Adds(Up19[9]) : x.table = Up19[9].table
  <2>1. /\ Up19[9].table = "flags"
        /\ \A x \in Adds(Up19[9]) :
             \/ x = Table("flags")
             \/ x = Cascade("flags", "photo_id", "photos")
             \/ x = Cascade("flags", "reporter_id", "users")
             \/ x = SetNull("flags", "resolved_by_id", "users")
             \/ x = Unique("flags", "uq_flag_photo_reporter")
    BY UpFacts
  <2> QED
    BY <2>1, Fields
<1>10. \A x \in Adds(Up19[10]) : x.table = Up19[10].table
  BY UpFacts, Fields
<1>11. \A x \in Adds(Up19[11]) : x.table = Up19[11].table
  BY UpFacts, Fields
<1>12. \A x \in Adds(Up19[12]) : x.table = Up19[12].table
  BY UpFacts, Fields
<1>13. \A x \in Adds(Up19[13]) : x.table = Up19[13].table
  BY UpFacts, Fields
<1>14. \A x \in Adds(Up19[14]) : x.table = Up19[14].table
  BY UpFacts, Fields
<1>15. \A x \in Adds(Up19[15]) : x.table = Up19[15].table
  BY UpFacts, Fields
<1>16. \A x \in Adds(Up19[16]) : x.table = Up19[16].table
  BY UpFacts, Fields
<1>17. \A x \in Adds(Up19[17]) : x.table = Up19[17].table
  BY UpFacts, Fields
<1>18. \A x \in Adds(Up19[18]) : x.table = Up19[18].table
  BY UpFacts, Fields
<1>19. \A x \in Adds(Up19[19]) : x.table = Up19[19].table
  BY UpFacts, Fields
<1> QED
  BY <1>1, <1>2, <1>3, <1>4, <1>5, <1>6, <1>7, <1>8, <1>9, <1>10, <1>11, <1>12, <1>13,
     <1>14, <1>15, <1>16, <1>17, <1>18, <1>19

(* None takes anything away, so each state extends the one before.         *)
LEMMA UpEffect ==
  ASSUME NEW k \in 0 .. 18
  PROVE  Effect(UpState(k), Up19[k + 1]) = UpState(k + 1)
<1> DEFINE s == Up19[k + 1]
<1>0. k + 1 \in 1 .. 19
  OBVIOUS
<1>1. s.op \in {"create_table", "create_index", "stamp"}
  BY <1>0, UpKinds
<1>2. Drops(UpState(k).schema, s) = {}
  BY <1>1 DEF Drops
<1>3. UpState(k + 1).schema = UpState(k).schema \union Adds(s)
  <2>1. 1 .. k + 1 = (1 .. k) \union {k + 1}
    OBVIOUS
  <2> QED
    BY <2>1 DEF UpState
<1>4. UpState(k + 1).version = IF s.op = "stamp" THEN s.to ELSE UpState(k).version
  <2>1. CASE k + 1 \in TablesUp
    <3>1. s.op = "create_table"
      BY <2>1, UpKinds
    <3>2. k + 1 # 8 /\ k + 1 # 15 /\ k + 1 # 19
      BY <2>1 DEF TablesUp
    <3> QED
      BY <3>1, <3>2 DEF UpState
  <2>2. CASE k + 1 \in IndexesUp
    <3>1. s.op = "create_index"
      BY <2>2, UpKinds
    <3>2. k + 1 # 8 /\ k + 1 # 15 /\ k + 1 # 19
      BY <2>2 DEF IndexesUp
    <3> QED
      BY <3>1, <3>2 DEF UpState
  <2>3. CASE k = 7
    BY <2>3, UpFacts DEF UpState
  <2>4. CASE k = 14
    BY <2>4, UpFacts DEF UpState
  <2>5. CASE k = 18
    BY <2>5, UpFacts DEF UpState
  <2> QED
    BY <1>0, <2>1, <2>2, <2>3, <2>4, <2>5, UpKinds DEF StampsUp
<1> QED
  BY <1>2, <1>3, <1>4 DEF Effect, UpState

(* A table of the schema is among its tables.                              *)
LEMMA InTables == ASSUME NEW S, NEW t, Table(t) \in S PROVE t \in Tables(S)
<1>1. Table(t).kind = "table" /\ Table(t).table = t
  BY DEF Table
<1> QED
  BY <1>1 DEF Tables

(* A table is created once, and the tables its keys refer to before it.    *)
LEMMA FitsCreateTable ==
  ASSUME NEW k \in 0 .. 18, k + 1 \in TablesUp,
         \A j \in 1 .. k : Up19[j].table # Up19[k + 1].table,
         \A o \in Adds(Up19[k + 1]) :
           IsKey(o) => \E j \in 1 .. k : j \in TablesUp /\ Up19[j].table = o.to
  PROVE  Fits(UpState(k), Up19[k + 1])
<1> DEFINE s == Up19[k + 1]
           schema == UpState(k).schema
<1>1. s.op = "create_table" /\ s.objects = Adds(s)
  BY UpKinds DEF Adds
<1>2. s.table \notin Tables(schema)
  <2>1. ASSUME NEW j \in 1 .. k, NEW o \in Adds(Up19[j])
        PROVE  o.table # s.table
    <3>1. j \in 1 .. 19
      OBVIOUS
    <3> QED
      BY <2>1, <3>1, UpOwn
  <2> QED
    BY <2>1 DEF Tables, UpState
<1>3. ASSUME NEW o \in s.objects, IsKey(o)
      PROVE  o.to \in Tables(schema)
  <2>1. PICK j \in 1 .. k : j \in TablesUp /\ Up19[j].table = o.to
    BY <1>1, <1>3
  <2>2. Table(o.to) \in Adds(Up19[j])
    BY <2>1, UpKinds
  <2>3. Table(o.to) \in schema
    BY <2>1, <2>2 DEF UpState
  <2> QED
    BY <2>3, InTables
<1> QED
  BY <1>1, <1>2, <1>3 DEF Fits

(* An index is created once, after its table.                              *)
LEMMA FitsCreateIndex ==
  ASSUME NEW k \in 0 .. 18, k + 1 \in IndexesUp,
         \E j \in 1 .. k : j \in TablesUp /\ Up19[j].table = Up19[k + 1].table,
         \A j \in 1 .. k : Adds(Up19[j]) \cap Adds(Up19[k + 1]) = {}
  PROVE  Fits(UpState(k), Up19[k + 1])
<1> DEFINE s == Up19[k + 1]
           schema == UpState(k).schema
<1>1. s.op = "create_index" /\ s.objects = Adds(s)
  BY UpKinds DEF Adds
<1>2. s.table \in Tables(schema)
  <2>1. PICK j \in 1 .. k : j \in TablesUp /\ Up19[j].table = s.table
    OBVIOUS
  <2>2. Table(s.table) \in Adds(Up19[j])
    BY <2>1, UpKinds
  <2>3. Table(s.table) \in schema
    BY <2>1, <2>2 DEF UpState
  <2> QED
    BY <2>3, InTables
<1>3. s.objects \cap schema = {}
  BY <1>1 DEF UpState
<1> QED
  BY <1>1, <1>2, <1>3 DEF Fits

UpTable(j) ==
  CASE j \in StampsUp \union {1} -> "alembic_version"
    [] j \in {2, 3} -> "users"
    [] j \in {4, 5} -> "photos"
    [] j \in {6, 7} -> "thumbnails"
    [] j \in 9 .. 12 -> "flags"
    [] j \in {13, 14} -> "moderation_actions"
    [] j \in 16 .. 18 -> "notifications"

(* The table of each statement up.                                         *)
LEMMA UpTables == \A j \in 1 .. 19 : Up19[j].table = UpTable(j)
<1>1. \A j \in StampsUp \union {1} : Up19[j].table = "alembic_version"
  BY UpFacts DEF StampsUp
<1>2. \A j \in {2, 3} : Up19[j].table = "users"
  BY UpFacts
<1>3. \A j \in {4, 5} : Up19[j].table = "photos"
  BY UpFacts
<1>4. \A j \in {6, 7} : Up19[j].table = "thumbnails"
  BY UpFacts
<1>5. \A j \in 9 .. 12 : Up19[j].table = "flags"
  <2>1. \A j \in 9 .. 12 : j = 9 \/ j = 10 \/ j = 11 \/ j = 12
    OBVIOUS
  <2> QED
    BY <2>1, UpFacts
<1>6. \A j \in {13, 14} : Up19[j].table = "moderation_actions"
  BY UpFacts
<1>7. \A j \in 16 .. 18 : Up19[j].table = "notifications"
  <2>1. \A j \in 16 .. 18 : j = 16 \/ j = 17 \/ j = 18
    OBVIOUS
  <2> QED
    BY <2>1, UpFacts
<1> QED
  BY <1>1, <1>2, <1>3, <1>4, <1>5, <1>6, <1>7 DEF UpTable, StampsUp

(* No index is created twice.                                              *)
LEMMA UpIndexes ==
  /\ \A i \in IndexesUp : \A x \in Adds(Up19[i]) : x.kind \in {"index", "unique_index"}
  /\ \A i \in TablesUp : \A x \in Adds(Up19[i]) : x.kind \notin {"index", "unique_index"}
<1>1. \A x \in Adds(Up19[9]) : x.kind \notin {"index", "unique_index"}
  <2>1. \A x \in Adds(Up19[9]) :
             \/ x = Table("flags")
             \/ x = Cascade("flags", "photo_id", "photos")
             \/ x = Cascade("flags", "reporter_id", "users")
             \/ x = SetNull("flags", "resolved_by_id", "users")
             \/ x = Unique("flags", "uq_flag_photo_reporter")
    BY UpFacts
  <2> QED
    BY <2>1, Fields
<1>2. \A x \in Adds(Up19[1]) : x.kind \notin {"index", "unique_index"}
  BY UpFacts, Fields
<1>3. \A x \in Adds(Up19[2]) : x.kind \notin {"index", "unique_index"}
  BY UpFacts, Fields
<1>4. \A x \in Adds(Up19[4]) : x.kind \notin {"index", "unique_index"}
  BY UpFacts, Fields
<1>5. \A x \in Adds(Up19[6]) : x.kind \notin {"index", "unique_index"}
  BY UpFacts, Fields
<1>6. \A x \in Adds(Up19[13]) : x.kind \notin {"index", "unique_index"}
  BY UpFacts, Fields
<1>7. \A x \in Adds(Up19[16]) : x.kind \notin {"index", "unique_index"}
  BY UpFacts, Fields
<1>8. \A x \in Adds(Up19[3]) : x.kind \in {"index", "unique_index"}
  BY UpFacts, Fields
<1>9. \A x \in Adds(Up19[5]) : x.kind \in {"index", "unique_index"}
  BY UpFacts, Fields
<1>10. \A x \in Adds(Up19[7]) : x.kind \in {"index", "unique_index"}
  BY UpFacts, Fields
<1>11. \A x \in Adds(Up19[10]) : x.kind \in {"index", "unique_index"}
  BY UpFacts, Fields
<1>12. \A x \in Adds(Up19[11]) : x.kind \in {"index", "unique_index"}
  BY UpFacts, Fields
<1>13. \A x \in Adds(Up19[12]) : x.kind \in {"index", "unique_index"}
  BY UpFacts, Fields
<1>14. \A x \in Adds(Up19[14]) : x.kind \in {"index", "unique_index"}
  BY UpFacts, Fields
<1>15. \A x \in Adds(Up19[17]) : x.kind \in {"index", "unique_index"}
  BY UpFacts, Fields
<1>16. \A x \in Adds(Up19[18]) : x.kind \in {"index", "unique_index"}
  BY UpFacts, Fields
<1> QED
  BY <1>1, <1>2, <1>3, <1>4, <1>5, <1>6, <1>7, <1>8, <1>9, <1>10, <1>11, <1>12, <1>13,
     <1>14, <1>15, <1>16 DEF TablesUp, IndexesUp

(* No object is created twice.                                             *)
LEMMA UpDisjoint ==
  ASSUME NEW i \in IndexesUp, NEW j \in 1 .. i - 1
  PROVE  Adds(Up19[j]) \cap Adds(Up19[i]) = {}
<1>0. i \in 1 .. 19 /\ j \in 1 .. 19 /\ j < i
  BY DEF IndexesUp
<1>1. CASE j \in StampsUp
  BY <1>1, UpFacts DEF StampsUp
<1>2. CASE j \in TablesUp
  BY <1>2, UpIndexes
<1>3. CASE UpTable(j) # UpTable(i)
  BY <1>0, <1>3, UpOwn, UpTables
<1>4. CASE j \in IndexesUp /\ UpTable(j) = UpTable(i)
  <2>1. \/ i = 11 /\ j = 10
        \/ i = 12 /\ j = 10
        \/ i = 12 /\ j = 11
        \/ i = 18 /\ j = 17
    BY <1>0, <1>4 DEF UpTable, IndexesUp, StampsUp
  <2>2. \A x \in Adds(Up19[10]) : x.on = "photo_id"
    BY UpFacts, Fields
  <2>3. \A x \in Adds(Up19[11]) : x.on = "reporter_id"
    BY UpFacts, Fields
  <2>4. \A x \in Adds(Up19[12]) : x.on = "status"
    BY UpFacts, Fields
  <2>5. \A x \in Adds(Up19[17]) : x.on = "recipient_email"
    BY UpFacts, Fields
  <2>6. \A x \in Adds(Up19[18]) : x.on = "status"
    BY UpFacts, Fields
  <2> QED
    BY <2>1, <2>2, <2>3, <2>4, <2>5, <2>6
<1> QED
  BY <1>0, <1>1, <1>2, <1>3, <1>4, UpKinds

(* Every statement up fits the state before it.                            *)
LEMMA UpFits ==
  ASSUME NEW k \in 0 .. 18
  PROVE  Fits(UpState(k), Up19[k + 1])
<1>0. k + 1 \in 1 .. 19
  OBVIOUS
<1>1. CASE k + 1 \in TablesUp
  <2>1. ASSUME NEW j \in 1 .. k
        PROVE  Up19[j].table # Up19[k + 1].table
    <3>1. UpTable(j) # UpTable(k + 1)
      BY <1>1 DEF UpTable, TablesUp, StampsUp
    <3> QED
      BY <1>0, <3>1, UpTables
  <2>2. ASSUME NEW o \in Adds(Up19[k + 1]), IsKey(o)
        PROVE  \E j \in 1 .. k : j \in TablesUp /\ Up19[j].table = o.to
    <3>1. k + 1 \in {1, 2, 16} => ~ IsKey(o)
      <4>1. k + 1 = 1 => ~ IsKey(o)
        BY <2>2, UpFacts, Fields DEF IsKey
      <4>2. k + 1 = 2 => ~ IsKey(o)
        BY <2>2, UpFacts, Fields DEF IsKey
      <4>3. k + 1 = 16 => ~ IsKey(o)
        BY <2>2, UpFacts, Fields DEF IsKey
      <4> QED
        BY <4>1, <4>2, <4>3
    <3>2. k + 1 = 4 => o.to = "users"
      BY <2>2, UpFacts, Fields DEF IsKey
    <3>3. k + 1 = 6 => o.to = "photos"
      BY <2>2, UpFacts, Fields DEF IsKey
    <3>4. k + 1 = 13 => o.to = "users"
      BY <2>2, UpFacts, Fields DEF IsKey
    <3>5. k + 1 = 9 => o.to \in {"users", "photos"}
      <4>1. k + 1 = 9 =>
             \/ o = Table("flags")
             \/ o = Cascade("flags", "photo_id", "photos")
             \/ o = Cascade("flags", "reporter_id", "users")
             \/ o = SetNull("flags", "resolved_by_id", "users")
             \/ o = Unique("flags", "uq_flag_photo_reporter")
        BY UpFacts
      <4> QED
        BY <2>2, <4>1, Fields DEF IsKey
    <3>6. 2 \in TablesUp /\ Up19[2].table = "users" /\ 4 \in TablesUp /\ Up19[4].table = "photos"
      BY UpFacts DEF TablesUp
    <3>7. CASE k + 1 = 4
      BY <3>2, <3>6, <3>7
    <3>8. CASE k + 1 = 6
      BY <3>3, <3>6, <3>8
    <3>9. CASE k + 1 = 13
      BY <3>4, <3>6, <3>9
    <3>10. CASE k + 1 = 9
      BY <3>5, <3>6, <3>10
    <3> QED
      BY <1>1, <2>2, <3>1, <3>7, <3>8, <3>9, <3>10 DEF TablesUp
  <2> QED
    BY <1>1, <2>1, <2>2, FitsCreateTable
<1>2. CASE k + 1 \in IndexesUp
  <2>1. \E j \in 1 .. k : j \in TablesUp /\ UpTable(j) = UpTable(k + 1)
    <3>1. CASE k + 1 \in {3, 5, 7, 10, 14, 17}
      <4>1. k \in 1 .. k /\ k \in TablesUp /\ UpTable(k) = UpTable(k + 1)
        BY <3>1 DEF UpTable, TablesUp, StampsUp
      <4> QED
        BY <4>1
    <3>2. CASE k + 1 \in {11, 12}
      <4>1. 9 \in 1 .. k /\ 9 \in TablesUp /\ UpTable(9) = UpTable(k + 1)
        BY <3>2 DEF UpTable, TablesUp, StampsUp
      <4> QED
        BY <4>1
    <3>3. CASE k + 1 = 18
      <4>1. 16 \in 1 .. k /\ 16 \in TablesUp /\ UpTable(16) = UpTable(k + 1)
        BY <3>3 DEF UpTable, TablesUp, StampsUp
      <4> QED
        BY <4>1
    <3> QED
      BY <1>2, <3>1, <3>2, <3>3 DEF IndexesUp
  <2>2. \E j \in 1 .. k : j \in TablesUp /\ Up19[j].table = Up19[k + 1].table
    <3>1. \A j \in 1 .. k : j \in 1 .. 19
      OBVIOUS
    <3> QED
      BY <1>0, <2>1, <3>1, UpTables
  <2>3. \A j \in 1 .. k : Adds(Up19[j]) \cap Adds(Up19[k + 1]) = {}
    <3>1. 1 .. k = 1 .. (k + 1) - 1
      OBVIOUS
    <3> QED
      BY <1>2, <3>1, UpDisjoint
  <2> QED
    BY <1>2, <2>2, <2>3, FitsCreateIndex
<1>3. CASE k + 1 \in StampsUp
  <2>1. k = 7 \/ k = 14 \/ k = 18
    BY <1>3 DEF StampsUp
  <2>2. Up19[k + 1].op = "stamp" /\ UpState(k).version = Up19[k + 1].from
    BY <2>1, UpFacts DEF UpState
  <2> QED
    BY <2>2 DEF Fits
<1> QED
  BY <1>0, <1>1, <1>2, <1>3, UpKinds

(* The statements down, written out.                                       *)
LEMMA DownFacts ==
  /\ Down16[1].op = "drop_index" /\ Down16[1].objects = {Index("notifications", "status")}
  /\ Down16[2].op = "drop_index" /\ Down16[2].objects = {Index("notifications", "recipient_email")}
  /\ Down16[3].op = "drop_table" /\ Down16[3].table = "notifications"
  /\ Down16[4].op = "stamp" /\ Down16[4].from = 3 /\ Down16[4].to = 2
  /\ Down16[5].op = "drop_table" /\ Down16[5].table = "moderation_actions"
  /\ Down16[6].op = "drop_index" /\ Down16[6].objects = {Index("flags", "status")}
  /\ Down16[7].op = "drop_index" /\ Down16[7].objects = {Index("flags", "reporter_id")}
  /\ Down16[8].op = "drop_index" /\ Down16[8].objects = {Index("flags", "photo_id")}
  /\ Down16[9].op = "drop_table" /\ Down16[9].table = "flags"
  /\ Down16[10].op = "stamp" /\ Down16[10].from = 2 /\ Down16[10].to = 1
  /\ Down16[11].op = "drop_table" /\ Down16[11].table = "thumbnails"
  /\ Down16[12].op = "drop_index" /\ Down16[12].objects = {Index("photos", "owner_id")}
  /\ Down16[13].op = "drop_table" /\ Down16[13].table = "photos"
  /\ Down16[14].op = "drop_index" /\ Down16[14].objects = {UniqueIndex("users", "email")}
  /\ Down16[15].op = "drop_table" /\ Down16[15].table = "users"
  /\ Down16[16].op = "stamp" /\ Down16[16].from = 1 /\ Down16[16].to = 0
BY DEF Down16, DropIndex, DropTable, Stamp

TablesDown == {3, 5, 9, 11, 13, 15}
IndexesDown == {1, 2, 6, 7, 8, 12, 14}
StampsDown == {4, 10, 16}

(* What each of them is.                                                   *)
LEMMA DownKinds ==
  /\ \A i \in 1 .. 16 : i \in TablesDown \/ i \in IndexesDown \/ i \in StampsDown
  /\ \A i \in TablesDown : Down16[i].op = "drop_table"
  /\ \A i \in IndexesDown : Down16[i].op = "drop_index"
  /\ \A i \in StampsDown : Down16[i].op = "stamp" /\ Down16[i].to \in Nat
<1>1. \A i \in 1 .. 16 : i \in TablesDown \/ i \in IndexesDown \/ i \in StampsDown
  BY DEF TablesDown, IndexesDown, StampsDown
<1>2. \A i \in TablesDown : Down16[i].op = "drop_table"
  BY DownFacts DEF TablesDown
<1>3. \A i \in IndexesDown : Down16[i].op = "drop_index"
  BY DownFacts DEF IndexesDown
<1>4. \A i \in StampsDown : Down16[i].op = "stamp" /\ Down16[i].to \in Nat
  BY DownFacts DEF StampsDown
<1> QED
  BY <1>1, <1>2, <1>3, <1>4

(* What a statement takes away wherever it is.                             *)
Hits(s, o) ==
  \/ s.op = "drop_index" /\ o \in s.objects
  \/ s.op = "drop_table" /\ o.table = s.table

(* The database a downgrade from the head sees after k statements.         *)
DownState(k) ==
  [version |-> IF k < 4 THEN 3 ELSE IF k < 10 THEN 2 ELSE IF k < 16 THEN 1 ELSE 0,
   schema |-> {o \in UpState(19).schema : \A i \in 1 .. k : ~ Hits(Down16[i], o)}]

(* Each state down is the one before without what the statement drops.     *)
LEMMA DownEffect ==
  ASSUME NEW k \in 0 .. 15
  PROVE  Effect(DownState(k), Down16[k + 1]) = DownState(k + 1)
<1> DEFINE s == Down16[k + 1]
<1>0. k + 1 \in 1 .. 16
  OBVIOUS
<1>1. s.op \in {"drop_table", "drop_index", "stamp"}
  BY <1>0, DownKinds
<1>2. Drops(DownState(k).schema, s) = {o \in DownState(k).schema : Hits(s, o)} /\ Adds(s) = {}
  BY <1>1 DEF Drops, Hits, Adds
<1>3. DownState(k + 1).schema = {o \in DownState(k).schema : ~ Hits(s, o)}
  <2>1. 1 .. k + 1 = (1 .. k) \union {k + 1}
    OBVIOUS
  <2> QED
    BY <2>1 DEF DownState
<1>4. DownState(k + 1).version = IF s.op = "stamp" THEN s.to ELSE DownState(k).version
  <2>1. CASE k + 1 \in TablesDown
    <3>1. s.op = "drop_table"
      BY <2>1, DownKinds
    <3>2. k + 1 # 4 /\ k + 1 # 10 /\ k + 1 # 16
      BY <2>1 DEF TablesDown
    <3> QED
      BY <3>1, <3>2 DEF DownState
  <2>2. CASE k + 1 \in IndexesDown
    <3>1. s.op = "drop_index"
      BY <2>2, DownKinds
    <3>2. k + 1 # 4 /\ k + 1 # 10 /\ k + 1 # 16
      BY <2>2 DEF IndexesDown
    <3> QED
      BY <3>1, <3>2 DEF DownState
  <2>3. CASE k = 3
    BY <2>3, DownFacts DEF DownState
  <2>4. CASE k = 9
    BY <2>4, DownFacts DEF DownState
  <2>5. CASE k = 15
    BY <2>5, DownFacts DEF DownState
  <2> QED
    BY <1>0, <2>1, <2>2, <2>3, <2>4, <2>5, DownKinds DEF StampsDown
<1>5. (DownState(k).schema \ Drops(DownState(k).schema, s)) \union Adds(s) = DownState(k + 1).schema
  BY <1>2, <1>3
<1> QED
  BY <1>4, <1>5 DEF Effect, DownState

(* An object is in a state if a statement up to it creates it.             *)
LEMMA InState ==
  ASSUME NEW n \in 0 .. 19, NEW o
  PROVE  o \in UpState(n).schema <=> \E i \in 1 .. n : o \in Adds(Up19[i])
BY DEF UpState

(* An object of the head is created with or on the table of its statement. *)
LEMMA HeadTables ==
  ASSUME NEW o \in UpState(19).schema
  PROVE  \E i \in TablesUp \union IndexesUp : o \in Adds(Up19[i]) /\ o.table = UpTable(i)
<1>1. PICK i \in 1 .. 19 : o \in Adds(Up19[i])
  BY InState
<1>2. i \notin StampsUp
  BY <1>1, UpFacts DEF StampsUp
<1> QED
  BY <1>1, <1>2, UpOwn, UpTables, UpKinds

(* Which objects the revisions brought.                                    *)
LEMMA Brought ==
  ASSUME NEW o \in UpState(19).schema
  PROVE  /\ o \in UpState(15).schema <=> o.table # "notifications"
         /\ o \in UpState(8).schema <=> o.table \notin {"notifications", "moderation_actions", "flags"}
         /\ o \in UpState(1).schema <=> o.table = "alembic_version"
<1>1. PICK i \in TablesUp \union IndexesUp : o \in Adds(Up19[i]) /\ o.table = UpTable(i)
  BY HeadTables
<1>2. ASSUME NEW n \in 0 .. 19, o \in UpState(n).schema
      PROVE  \E j \in TablesUp \union IndexesUp : j <= n /\ o.table = UpTable(j)
  <2>1. PICK j \in 1 .. n : o \in Adds(Up19[j])
    BY <1>2, InState
  <2>2. j \in 1 .. 19
    OBVIOUS
  <2>3. j \notin StampsUp
    BY <2>1, UpFacts DEF StampsUp
  <2> QED
    BY <2>1, <2>2, <2>3, UpOwn, UpTables, UpKinds
<1>3. ASSUME NEW n \in 0 .. 19, i <= n
      PROVE  o \in UpState(n).schema
  <2>1. i \in 1 .. n
    BY <1>3 DEF TablesUp, IndexesUp
  <2> QED
    BY <1>1, <2>1, InState
<1>4. o \in UpState(15).schema <=> o.table # "notifications"
  <2>1. \A j \in TablesUp \union IndexesUp : j <= 15 <=> UpTable(j) # "notifications"
    BY DEF TablesUp, IndexesUp, StampsUp, UpTable
  <2> QED
    BY <1>1, <1>2, <1>3, <2>1
<1>5. o \in UpState(8).schema <=> o.table \notin {"notifications", "moderation_actions", "flags"}
  <2>1. \A j \in TablesUp \union IndexesUp :
          j <= 8 <=> UpTable(j) \notin {"notifications", "moderation_actions", "flags"}
    BY DEF TablesUp, IndexesUp, StampsUp, UpTable
  <2> QED
    BY <1>1, <1>2, <1>3, <2>1
<1>6. o \in UpState(1).schema <=> o.table = "alembic_version"
  <2>1. \A j \in TablesUp \union IndexesUp : j <= 1 <=> UpTable(j) = "alembic_version"
    BY DEF TablesUp, IndexesUp, StampsUp, UpTable
  <2> QED
    BY <1>1, <1>2, <1>3, <2>1
<1> QED
  BY <1>4, <1>5, <1>6

(* The tables of the indexes that are dropped.                             *)
LEMMA DownIndexTables ==
  /\ \A i \in {1, 2} : \A x \in Down16[i].objects : x.table = "notifications"
  /\ \A i \in {6, 7, 8} : \A x \in Down16[i].objects : x.table = "flags"
  /\ \A x \in Down16[12].objects : x.table = "photos"
  /\ \A x \in Down16[14].objects : x.table = "users"
  /\ \A x \in Down16[1].objects \union Down16[6].objects : x.on = "status"
  /\ \A x \in Down16[2].objects : x.on = "recipient_email"
  /\ \A x \in Down16[7].objects : x.on = "reporter_id"
  /\ \A x \in Down16[8].objects : x.on = "photo_id"
  /\ \A i \in IndexesDown : \A x \in Down16[i].objects : x.kind # "table"
<1>1. \A x \in Down16[1].objects : x.table = "notifications" /\ x.on = "status" /\ x.kind # "table"
  BY DownFacts, Fields
<1>2. \A x \in Down16[2].objects : x.table = "notifications" /\ x.on = "recipient_email" /\ x.kind # "table"
  BY DownFacts, Fields
<1>3. \A x \in Down16[6].objects : x.table = "flags" /\ x.on = "status" /\ x.kind # "table"
  BY DownFacts, Fields
<1>4. \A x \in Down16[7].objects : x.table = "flags" /\ x.on = "reporter_id" /\ x.kind # "table"
  BY DownFacts, Fields
<1>5. \A x \in Down16[8].objects : x.table = "flags" /\ x.on = "photo_id" /\ x.kind # "table"
  BY DownFacts, Fields
<1>6. \A x \in Down16[12].objects : x.table = "photos" /\ x.on = "owner_id" /\ x.kind # "table"
  BY DownFacts, Fields
<1>7. \A x \in Down16[14].objects : x.table = "users" /\ x.on = "email" /\ x.kind # "table"
  BY DownFacts, Fields
<1> QED
  BY <1>1, <1>2, <1>3, <1>4, <1>5, <1>6, <1>7 DEF IndexesDown

(* Which tables k statements of a downgrade leave.                         *)
LEMMA DownAt ==
  /\ DownState(0) = UpState(19)
  /\ DownState(4) = UpState(15)
  /\ DownState(10) = UpState(8)
  /\ DownState(16) = UpState(1)
<1>1. DownState(0).schema = UpState(19).schema
  BY DEF DownState
<1>2. ASSUME NEW n \in 0 .. 19, NEW o \in UpState(n).schema
      PROVE  o \in UpState(19).schema
  <2>1. PICK i \in 1 .. n : o \in Adds(Up19[i])
    BY <1>2, InState
  <2>2. i \in 1 .. 19
    OBVIOUS
  <2> QED
    BY <2>1, <2>2, InState
<1>3. DownState(4).schema = UpState(15).schema
  <2>1. ASSUME NEW o \in UpState(19).schema
        PROVE  (\A i \in 1 .. 4 : ~ Hits(Down16[i], o)) <=> o.table # "notifications"
    <3>1. 3 \in 1 .. 4 /\ Hits(Down16[3], o) <=> o.table = "notifications"
      BY DownFacts DEF Hits
    <3>2. ASSUME NEW i \in 1 .. 4, Hits(Down16[i], o)
          PROVE  o.table = "notifications"
      <4>1. i \in {1, 2} \/ i = 3 \/ i = 4
        OBVIOUS
      <4>2. CASE i \in {1, 2}
        <5>1. o \in Down16[i].objects
          BY <3>2, <4>2, DownFacts DEF Hits
        <5> QED
          BY <4>2, <5>1, DownIndexTables
      <4> QED
        BY <3>1, <3>2, <4>1, <4>2, DownFacts DEF Hits
    <3> QED
      BY <3>1, <3>2
  <2> QED
    BY <1>2, <2>1, Brought DEF DownState
<1>4. DownState(10).schema = UpState(8).schema
  <2> DEFINE gone == {"notifications", "moderation_actions", "flags"}
  <2>1. ASSUME NEW o \in UpState(19).schema
        PROVE  (\A i \in 1 .. 10 : ~ Hits(Down16[i], o)) <=> o.table \notin gone
    <3>1. /\ 3 \in 1 .. 10 /\ Hits(Down16[3], o) <=> o.table = "notifications"
          /\ 5 \in 1 .. 10 /\ Hits(Down16[5], o) <=> o.table = "moderation_actions"
          /\ 9 \in 1 .. 10 /\ Hits(Down16[9], o) <=> o.table = "flags"
      BY DownFacts DEF Hits
    <3>2. ASSUME NEW i \in 1 .. 10, Hits(Down16[i], o)
          PROVE  o.table \in gone
      <4>1. i \in {1, 2, 6, 7, 8} \/ i \in {3, 5, 9} \/ i \in {4, 10}
        OBVIOUS
      <4>2. CASE i \in {1, 2, 6, 7, 8}
        <5>1. o \in Down16[i].objects
          BY <3>2, <4>2, DownKinds DEF Hits, IndexesDown
        <5> QED
          BY <4>2, <5>1, DownIndexTables
      <4>3. CASE i \in {3, 5, 9}
        BY <3>1, <3>2, <4>3
      <4>4. CASE i \in {4, 10}
        BY <3>2, <4>4, DownKinds DEF Hits, StampsDown
      <4> QED
        BY <4>1, <4>2, <4>3, <4>4
    <3> QED
      BY <3>1, <3>2
  <2> QED
    BY <1>2, <2>1, Brought DEF DownState
<1>5. DownState(16).schema = UpState(1).schema
  <2>1. ASSUME NEW o \in UpState(19).schema
        PROVE  (\A i \in 1 .. 16 : ~ Hits(Down16[i], o)) <=> o.table = "alembic_version"
    <3>1. /\ 3 \in 1 .. 16 /\ Hits(Down16[3], o) <=> o.table = "notifications"
          /\ 5 \in 1 .. 16 /\ Hits(Down16[5], o) <=> o.table = "moderation_actions"
          /\ 9 \in 1 .. 16 /\ Hits(Down16[9], o) <=> o.table = "flags"
          /\ 11 \in 1 .. 16 /\ Hits(Down16[11], o) <=> o.table = "thumbnails"
          /\ 13 \in 1 .. 16 /\ Hits(Down16[13], o) <=> o.table = "photos"
          /\ 15 \in 1 .. 16 /\ Hits(Down16[15], o) <=> o.table = "users"
      BY DownFacts DEF Hits
    <3>2. o.table \in {"alembic_version", "notifications", "moderation_actions", "flags",
                       "thumbnails", "photos", "users"}
      <4>1. \A j \in TablesUp \union IndexesUp :
              UpTable(j) \in {"alembic_version", "notifications", "moderation_actions", "flags",
                              "thumbnails", "photos", "users"}
        BY DEF TablesUp, IndexesUp, StampsUp, UpTable
      <4> QED
        BY <4>1, HeadTables
    <3>3. ASSUME NEW i \in 1 .. 16, Hits(Down16[i], o)
          PROVE  o.table # "alembic_version"
      <4>1. CASE i \in IndexesDown
        <5>1. o \in Down16[i].objects
          BY <3>3, <4>1, DownKinds DEF Hits
        <5> QED
          BY <4>1, <5>1, DownIndexTables DEF IndexesDown
      <4>2. CASE i \in TablesDown
        BY <3>1, <3>3, <4>2 DEF TablesDown
      <4>3. CASE i \in StampsDown
        BY <3>3, <4>3, DownKinds DEF Hits
      <4> QED
        BY <4>1, <4>2, <4>3, DownKinds
    <3> QED
      BY <3>1, <3>2, <3>3
  <2> QED
    BY <1>2, <2>1, Brought DEF DownState
<1>6. /\ DownState(0).version = UpState(19).version
      /\ DownState(4).version = UpState(15).version
      /\ DownState(10).version = UpState(8).version
      /\ DownState(16).version = UpState(1).version
  BY DEF DownState, UpState
<1>7. \A k : DownState(k) = [version |-> DownState(k).version, schema |-> DownState(k).schema]
  BY DEF DownState
<1>8. \A k : UpState(k) = [version |-> UpState(k).version, schema |-> UpState(k).schema]
  BY DEF UpState
<1>9. \A k, n : /\ DownState(k).schema = UpState(n).schema
                /\ DownState(k).version = UpState(n).version
                => DownState(k) = UpState(n)
  BY <1>7, <1>8
<1> QED
  BY <1>1, <1>3, <1>4, <1>5, <1>6, <1>9

(* Every key, and what it refers to.                                       *)
LEMMA HeadKeys ==
  ASSUME NEW o \in UpState(19).schema, IsKey(o)
  PROVE  \/ o.to = "users" /\ o.table \in {"photos", "flags", "moderation_actions"}
         \/ o.to = "photos" /\ o.table \in {"thumbnails", "flags"}
<1>1. PICK i \in TablesUp \union IndexesUp : o \in Adds(Up19[i])
  BY HeadTables
<1>2. i \in TablesUp
  BY <1>1, UpIndexes DEF IsKey
<1>3. i \in {1, 2, 16} => ~ IsKey(o)
  <2>1. i = 1 => ~ IsKey(o)
    BY <1>1, UpFacts, Fields DEF IsKey
  <2>2. i = 2 => ~ IsKey(o)
    BY <1>1, UpFacts, Fields DEF IsKey
  <2>3. i = 16 => ~ IsKey(o)
    BY <1>1, UpFacts, Fields DEF IsKey
  <2> QED
    BY <2>1, <2>2, <2>3
<1>4. i = 4 => o.table = "photos" /\ o.to = "users"
  BY <1>1, UpFacts, Fields DEF IsKey
<1>5. i = 6 => o.table = "thumbnails" /\ o.to = "photos"
  BY <1>1, UpFacts, Fields DEF IsKey
<1>6. i = 13 => o.table = "moderation_actions" /\ o.to = "users"
  BY <1>1, UpFacts, Fields DEF IsKey
<1>7. i = 9 => o.table = "flags" /\ o.to \in {"users", "photos"}
  <2>1. i = 9 =>
             \/ o = Table("flags")
             \/ o = Cascade("flags", "photo_id", "photos")
             \/ o = Cascade("flags", "reporter_id", "users")
             \/ o = SetNull("flags", "resolved_by_id", "users")
             \/ o = Unique("flags", "uq_flag_photo_reporter")
    BY <1>1, UpFacts
  <2> QED
    BY <2>1, Fields DEF IsKey
<1> QED
  BY <1>2, <1>3, <1>4, <1>5, <1>6, <1>7 DEF TablesUp

(* An index goes before its table.                                         *)
LEMMA FitsDropIndex ==
  ASSUME NEW k \in 0 .. 15, k + 1 \in IndexesDown
  PROVE  Fits(DownState(k), Down16[k + 1])
<1> DEFINE s == Down16[k + 1]
<1>1. s.op = "drop_index"
  BY DownKinds
<1>2. ASSUME NEW o \in s.objects
      PROVE  o \in UpState(19).schema
  <2>1. /\ k + 1 = 1 => o \in Adds(Up19[18])
        /\ k + 1 = 2 => o \in Adds(Up19[17])
        /\ k + 1 = 6 => o \in Adds(Up19[12])
        /\ k + 1 = 7 => o \in Adds(Up19[11])
        /\ k + 1 = 8 => o \in Adds(Up19[10])
        /\ k + 1 = 12 => o \in Adds(Up19[5])
        /\ k + 1 = 14 => o \in Adds(Up19[3])
    BY <1>2, DownFacts, UpFacts
  <2>2. \E i \in 1 .. 19 : o \in Adds(Up19[i])
    BY <2>1 DEF IndexesDown
  <2> QED
    BY <2>2, InState
<1>3. ASSUME NEW o \in s.objects, NEW j \in 1 .. k
      PROVE  ~ Hits(Down16[j], o)
  <2>1. CASE j \in StampsDown
    BY <2>1, DownKinds DEF Hits
  <2>2. CASE j \in TablesDown
    <3>1. Hits(Down16[j], o) => o.table = Down16[j].table
      BY <2>2, DownKinds DEF Hits
    <3>2. CASE k + 1 \in {1, 2}
      BY <2>2, <3>2 DEF TablesDown
    <3>3. CASE k + 1 \in {6, 7, 8}
      <4>1. o.table = "flags" /\ j \in {3, 5}
        BY <1>3, <2>2, <3>3, DownIndexTables DEF TablesDown
      <4> QED
        BY <3>1, <4>1, DownFacts
    <3>4. CASE k + 1 = 12
      <4>1. o.table = "photos" /\ j \in {3, 5, 9, 11}
        BY <1>3, <2>2, <3>4, DownIndexTables DEF TablesDown
      <4> QED
        BY <3>1, <4>1, DownFacts
    <3>5. CASE k + 1 = 14
      <4>1. o.table = "users" /\ j \in {3, 5, 9, 11, 13}
        BY <1>3, <2>2, <3>5, DownIndexTables DEF TablesDown
      <4> QED
        BY <3>1, <4>1, DownFacts
    <3> QED
      BY <3>2, <3>3, <3>4, <3>5 DEF IndexesDown
  <2>3. CASE j \in IndexesDown
    <3>1. Hits(Down16[j], o) => o \in Down16[j].objects
      BY <2>3, DownKinds DEF Hits
    <3>2. CASE k + 1 = 12
      <4>1. o.table = "photos" /\ j \in {1, 2, 6, 7, 8}
        BY <1>3, <2>3, <3>2, DownIndexTables DEF IndexesDown
      <4> QED
        BY <3>1, <4>1, DownIndexTables
    <3>3. CASE k + 1 = 14
      <4>1. o.table = "users" /\ j \in {1, 2, 6, 7, 8, 12}
        BY <1>3, <2>3, <3>3, DownIndexTables DEF IndexesDown
      <4> QED
        BY <3>1, <4>1, DownIndexTables
    <3>4. CASE k + 1 \in {6, 7, 8} /\ j \in {1, 2}
      <4>1. o.table = "flags"
        BY <1>3, <3>4, DownIndexTables
      <4> QED
        BY <3>1, <3>4, <4>1, DownIndexTables
    <3>5. CASE k + 1 = 2 /\ j = 1
      BY <1>3, <3>1, <3>5, DownIndexTables
    <3>6. CASE k + 1 = 7 /\ j = 6
      BY <1>3, <3>1, <3>6, DownIndexTables
    <3>7. CASE k + 1 = 8 /\ j \in {6, 7}
      BY <1>3, <3>1, <3>7, DownIndexTables
    <3>8. \/ k + 1 = 12 \/ k + 1 = 14
          \/ k + 1 \in {6, 7, 8} /\ j \in {1, 2}
          \/ k + 1 = 2 /\ j = 1
          \/ k + 1 = 7 /\ j = 6
          \/ k + 1 = 8 /\ j \in {6, 7}
      BY <2>3 DEF IndexesDown
    <3> QED
      BY <3>2, <3>3, <3>4, <3>5, <3>6, <3>7, <3>8
  <2>4. j \in 1 .. 16
    OBVIOUS
  <2> QED
    BY <2>1, <2>2, <2>3, <2>4, DownKinds
<1>4. s.objects \subseteq DownState(k).schema
  BY <1>2, <1>3 DEF DownState
<1> QED
  BY <1>1, <1>4 DEF Fits

(* A table goes once, after those whose keys refer to it.                  *)
LEMMA FitsDropTable ==
  ASSUME NEW k \in 0 .. 15, k + 1 \in TablesDown
  PROVE  Fits(DownState(k), Down16[k + 1])
<1> DEFINE s == Down16[k + 1]
<1>1. s.op = "drop_table"
  BY DownKinds
<1>2. Table(s.table) \in UpState(19).schema
  <2>1. \E i \in TablesUp : Up19[i].table = s.table
    <3>1. /\ k + 1 = 3 => Up19[16].table = s.table
          /\ k + 1 = 5 => Up19[13].table = s.table
          /\ k + 1 = 9 => Up19[9].table = s.table
          /\ k + 1 = 11 => Up19[6].table = s.table
          /\ k + 1 = 13 => Up19[4].table = s.table
          /\ k + 1 = 15 => Up19[2].table = s.table
      BY DownFacts, UpFacts
    <3> QED
      BY <3>1 DEF TablesUp, TablesDown
  <2>2. PICK i \in TablesUp : Up19[i].table = s.table
    BY <2>1
  <2>3. i \in 1 .. 19
    BY DEF TablesUp
  <2> QED
    BY <2>2, <2>3, UpKinds, InState
<1>3. ASSUME NEW j \in 1 .. k, j \in TablesDown
      PROVE  Down16[j].table # s.table
  BY <1>3, DownFacts DEF TablesDown
<1>4. ASSUME NEW j \in 1 .. k
      PROVE  ~ Hits(Down16[j], Table(s.table))
  <2>1. CASE j \in StampsDown
    BY <2>1, DownKinds DEF Hits
  <2>2. CASE j \in TablesDown
    BY <1>3, <2>2, DownKinds, Fields DEF Hits
  <2>3. CASE j \in IndexesDown
    <3>1. Hits(Down16[j], Table(s.table)) => Table(s.table) \in Down16[j].objects
      BY <2>3, DownKinds DEF Hits
    <3>2. \A x \in Down16[j].objects : x.kind # "table"
      BY <2>3, DownIndexTables
    <3> QED
      BY <3>1, <3>2, Fields
  <2>4. j \in 1 .. 16
    OBVIOUS
  <2> QED
    BY <2>1, <2>2, <2>3, <2>4, DownKinds
<1>5. s.table \in Tables(DownState(k).schema)
  BY <1>2, <1>4, InTables DEF DownState
<1>6. ASSUME NEW o \in DownState(k).schema, IsKey(o), o.to = s.table
      PROVE  o.table = s.table
  <2>1. o \in UpState(19).schema
    BY DEF DownState
  <2>2. \A j \in 1 .. k : j \in TablesDown => o.table # Down16[j].table
    BY DownKinds DEF DownState, Hits
  <2>3. \/ o.to = "users" /\ o.table \in {"photos", "flags", "moderation_actions"}
        \/ o.to = "photos" /\ o.table \in {"thumbnails", "flags"}
    BY <1>6, <2>1, HeadKeys
  <2>4. CASE k + 1 = 15
    <3>1. 5 \in 1 .. k /\ 9 \in 1 .. k /\ 13 \in 1 .. k /\ {5, 9, 13} \subseteq TablesDown
      BY <2>4 DEF TablesDown
    <3>2. o.table # "photos" /\ o.table # "flags" /\ o.table # "moderation_actions"
      BY <2>2, <3>1, DownFacts
    <3> QED
      BY <1>6, <2>3, <2>4, <3>2, DownFacts
  <2>5. CASE k + 1 = 13
    <3>1. 9 \in 1 .. k /\ 11 \in 1 .. k /\ {9, 11} \subseteq TablesDown
      BY <2>5 DEF TablesDown
    <3>2. o.table # "thumbnails" /\ o.table # "flags"
      BY <2>2, <3>1, DownFacts
    <3> QED
      BY <1>6, <2>3, <2>5, <3>2, DownFacts
  <2>6. CASE k + 1 \in {3, 5, 9, 11}
    BY <1>6, <2>3, <2>6, DownFacts
  <2> QED
    BY <2>4, <2>5, <2>6 DEF TablesDown
<1> QED
  BY <1>1, <1>5, <1>6 DEF Fits

(* Every statement down fits the state before it.                          *)
LEMMA DownFits ==
  ASSUME NEW k \in 0 .. 15
  PROVE  Fits(DownState(k), Down16[k + 1])
<1>0. k + 1 \in 1 .. 16
  OBVIOUS
<1>1. CASE k + 1 \in StampsDown
  <2>1. k = 3 \/ k = 9 \/ k = 15
    BY <1>1 DEF StampsDown
  <2>2. Down16[k + 1].op = "stamp" /\ DownState(k).version = Down16[k + 1].from
    BY <2>1, DownFacts DEF DownState
  <2> QED
    BY <2>2 DEF Fits
<1> QED
  BY <1>0, <1>1, FitsDropIndex, FitsDropTable, DownKinds

-----------------------------------------------------------------------------
(* The inductive invariant.                                                *)
Revisions == {Untouched} \union {At[r] : r \in 0 .. 3}
AtHead == db = At[3]
Present(p) == p \in Services /\ pc[p] # "absent"

Types ==
  /\ pc \in [Services -> Up \union {"created", "starting", "migrating", "exited", "absent"}]
  /\ plan = [p \in Services |-> plan[p]] /\ tx = [p \in Services |-> tx[p]]
  /\ queue \subseteq Kinds
  /\ crashes \in Nat /\ ups \in Nat

(* The database is the suite's alone, or the containers'.                  *)
Alone == Present("pytest") => \A p \in Services \ {"pytest"} : pc[p] = "absent"

(* Only a migration has a plan and an open transaction, and the worker     *)
(* never migrates.                                                         *)
Idle ==
  \A p \in Services :
    /\ pc[p] # "migrating" => plan[p] = <<>> /\ tx[p] = Nothing
    /\ pc[p] \in {"starting", "migrating"} => p # "worker"

(* A migration sees the schema its next statement was written for.         *)
Upgrading(p) == \E k \in 0 .. 19 : plan[p] = Rest(Up19, k) /\ Seen(p) = UpState(k)
Downgrading(p) == \E k \in 0 .. 16 : plan[p] = Rest(Down16, k) /\ Seen(p) = DownState(k)
OnlyTable(p) == plan[p] = <<VersionTable>> /\ Seen(p) = Untouched
OnItsWay(p) == Upgrading(p) \/ (p = "pytest" /\ (Downgrading(p) \/ OnlyTable(p)))
Underway == \A p \in Services : pc[p] = "migrating" => OnItsWay(p)

(* An API serves at the head; the canary leaves "created" at the head, and *)
(* at the head no API has anything to migrate.                             *)
ServedAtHead == \A p \in Apis : pc[p] \in Up => AtHead
CanaryAtHead == "api-next" \in Services /\ pc["api-next"] \notin {"created", "absent"} => AtHead
Settled == AtHead => \A p \in Apis : plan[p] = <<>> /\ tx[p] = Nothing

(* What waits for the worker finds its tables.                             *)
QueueServed ==
  Present("worker") => \A kind \in queue : Publishes(kind) \subseteq Tables(db.schema)

DeploymentInv ==
  /\ Types /\ db \in Revisions
  /\ Alone /\ Idle /\ Underway
  /\ ServedAtHead /\ CanaryAtHead /\ Settled
  /\ QueueServed /\ TablesFound /\ OnlyKilledStop

-----------------------------------------------------------------------------
(* The revisions as databases an upgrade passes through.                   *)
LEMMA CreatedBy ==
  /\ Created(Upgrades[1]) = UNION {Adds(Up19[i]) : i \in 2 .. 8}
  /\ Created(Upgrades[2]) = UNION {Adds(Up19[i]) : i \in 9 .. 15}
  /\ Created(Upgrades[3]) = UNION {Adds(Up19[i]) : i \in 16 .. 19}
<1>0. Adds(Up19[8]) = {} /\ Adds(Up19[15]) = {} /\ Adds(Up19[19]) = {}
  BY UpFacts
<1>1. Created(Upgrades[1]) = UNION {Adds(Up19[i]) : i \in 2 .. 8}
  <2>1. /\ DOMAIN Upgrades[1] = 1 .. 6
        /\ Upgrades[1][1] = Up19[2] /\ Upgrades[1][2] = Up19[3] /\ Upgrades[1][3] = Up19[4]
        /\ Upgrades[1][4] = Up19[5] /\ Upgrades[1][5] = Up19[6] /\ Upgrades[1][6] = Up19[7]
    BY DEF Upgrades, Upgrade1, Up19
  <2>2. Created(Upgrades[1]) = UNION {Adds(Upgrades[1][i]) : i \in 1 .. 6}
    BY <2>1 DEF Created
  <2>3. ASSUME NEW i \in 1 .. 6
        PROVE  i + 1 \in 2 .. 8 /\ Upgrades[1][i] = Up19[i + 1]
    BY <2>1, <2>3
  <2>4. ASSUME NEW j \in 2 .. 8, j # 8
        PROVE  j - 1 \in 1 .. 6 /\ Upgrades[1][j - 1] = Up19[j]
    <3>1. j - 1 \in 1 .. 6 /\ (j - 1) + 1 = j
      BY <2>4
    <3> QED
      BY <2>3, <3>1
  <2> QED
    BY <1>0, <2>2, <2>3, <2>4
<1>2. Created(Upgrades[2]) = UNION {Adds(Up19[i]) : i \in 9 .. 15}
  <2>1. /\ DOMAIN Upgrades[2] = 1 .. 6
        /\ Upgrades[2][1] = Up19[9] /\ Upgrades[2][2] = Up19[10] /\ Upgrades[2][3] = Up19[11]
        /\ Upgrades[2][4] = Up19[12] /\ Upgrades[2][5] = Up19[13] /\ Upgrades[2][6] = Up19[14]
    BY DEF Upgrades, Upgrade2, Up19
  <2>2. Created(Upgrades[2]) = UNION {Adds(Upgrades[2][i]) : i \in 1 .. 6}
    BY <2>1 DEF Created
  <2>3. ASSUME NEW i \in 1 .. 6
        PROVE  i + 8 \in 9 .. 15 /\ Upgrades[2][i] = Up19[i + 8]
    BY <2>1, <2>3
  <2>4. ASSUME NEW j \in 9 .. 15, j # 15
        PROVE  j - 8 \in 1 .. 6 /\ Upgrades[2][j - 8] = Up19[j]
    <3>1. j - 8 \in 1 .. 6 /\ (j - 8) + 8 = j
      BY <2>4
    <3> QED
      BY <2>3, <3>1
  <2> QED
    BY <1>0, <2>2, <2>3, <2>4
<1>3. Created(Upgrades[3]) = UNION {Adds(Up19[i]) : i \in 16 .. 19}
  <2>1. /\ DOMAIN Upgrades[3] = 1 .. 3
        /\ Upgrades[3][1] = Up19[16] /\ Upgrades[3][2] = Up19[17] /\ Upgrades[3][3] = Up19[18]
    BY DEF Upgrades, Upgrade3, Up19
  <2>2. Created(Upgrades[3]) = UNION {Adds(Upgrades[3][i]) : i \in 1 .. 3}
    BY <2>1 DEF Created
  <2>3. ASSUME NEW i \in 1 .. 3
        PROVE  i + 15 \in 16 .. 19 /\ Upgrades[3][i] = Up19[i + 15]
    BY <2>1, <2>3
  <2>4. ASSUME NEW j \in 16 .. 19, j # 19
        PROVE  j - 15 \in 1 .. 3 /\ Upgrades[3][j - 15] = Up19[j]
    <3>1. j - 15 \in 1 .. 3 /\ (j - 15) + 15 = j
      BY <2>4
    <3> QED
      BY <2>3, <3>1
  <2> QED
    BY <1>0, <2>2, <2>3, <2>4
<1> QED
  BY <1>1, <1>2, <1>3

(* A revision is the state in which its upgrade ends.                      *)
LEMMA AtStates ==
  /\ Untouched = UpState(0)
  /\ \A r \in 0 .. 3 : At[r] = UpState(UpFrom(r)) /\ At[r].version = r
<1>1. Untouched = UpState(0)
  BY Newest3 DEF Untouched, UpState
<1>2. ASSUME NEW r \in 0 .. 3
      PROVE  At[r] = UpState(UpFrom(r)) /\ At[r].version = r
  <2>1. At[r] = [version |-> r,
                 schema |-> VersionTable.objects \union UNION {Created(Upgrades[i]) : i \in 1 .. r}]
    BY Newest3 DEF At
  <2>2. VersionTable.objects = Adds(Up19[1])
    <3>1. VersionTable = Up19[1]
      BY DEF Up19
    <3>2. Up19[1].op = "create_table"
      BY UpFacts
    <3> QED
      BY <3>1, <3>2 DEF Adds
  <2>3. UpState(UpFrom(r)).version = r
    BY DEF UpState, UpFrom
  <2>4. UpState(UpFrom(r)).schema
          = Adds(Up19[1]) \union UNION {Created(Upgrades[i]) : i \in 1 .. r}
    <3>1. CASE r = 0
      <4>1. UpFrom(r) = 1 /\ 1 .. r = {} /\ 1 .. UpFrom(r) = {1}
        BY <3>1 DEF UpFrom
      <4> QED
        BY <4>1 DEF UpState
    <3>2. CASE r = 1
      <4>1. UpFrom(r) = 8 /\ 1 .. r = {1} /\ 1 .. UpFrom(r) = {1} \union 2 .. 8
        BY <3>2 DEF UpFrom
      <4> QED
        BY <4>1, CreatedBy DEF UpState
    <3>3. CASE r = 2
      <4>1. UpFrom(r) = 15 /\ 1 .. r = {1, 2} /\ 1 .. UpFrom(r) = {1} \union 2 .. 8 \union 9 .. 15
        BY <3>3 DEF UpFrom
      <4> QED
        BY <4>1, CreatedBy DEF UpState
    <3>4. CASE r = 3
      <4>1. /\ UpFrom(r) = 19 /\ 1 .. r = {1, 2, 3}
            /\ 1 .. UpFrom(r) = {1} \union 2 .. 8 \union 9 .. 15 \union 16 .. 19
        BY <3>4 DEF UpFrom
      <4> QED
        BY <4>1, CreatedBy DEF UpState
    <3> QED
      BY <3>1, <3>2, <3>3, <3>4
  <2> QED
    BY <2>1, <2>2, <2>3, <2>4 DEF UpState
<1> QED
  BY <1>1, <1>2

(* The head is what the models declare, and the version table.             *)
LEMMA HeadSchema ==
  UpState(19).schema = Metadata \union {Table("alembic_version")}
<1> DEFINE all == Metadata \union {Table("alembic_version")}
<1>1. Adds(Up19[1]) \subseteq all
  BY UpFacts DEF Metadata
<1>2. Adds(Up19[2]) \subseteq all
  BY UpFacts DEF Metadata
<1>3. Adds(Up19[3]) \subseteq all
  BY UpFacts DEF Metadata
<1>4. Adds(Up19[4]) \subseteq all
  BY UpFacts DEF Metadata
<1>5. Adds(Up19[5]) \subseteq all
  BY UpFacts DEF Metadata
<1>6. Adds(Up19[6]) \subseteq all
  BY UpFacts DEF Metadata
<1>7. Adds(Up19[7]) \subseteq all
  BY UpFacts DEF Metadata
<1>8. Adds(Up19[8]) \subseteq all
  BY UpFacts DEF Metadata
<1>9. Adds(Up19[9]) \subseteq all
  BY UpFacts DEF Metadata
<1>10. Adds(Up19[10]) \subseteq all
  BY UpFacts DEF Metadata
<1>11. Adds(Up19[11]) \subseteq all
  BY UpFacts DEF Metadata
<1>12. Adds(Up19[12]) \subseteq all
  BY UpFacts DEF Metadata
<1>13. Adds(Up19[13]) \subseteq all
  BY UpFacts DEF Metadata
<1>14. Adds(Up19[14]) \subseteq all
  BY UpFacts DEF Metadata
<1>15. Adds(Up19[15]) \subseteq all
  BY UpFacts DEF Metadata
<1>16. Adds(Up19[16]) \subseteq all
  BY UpFacts DEF Metadata
<1>17. Adds(Up19[17]) \subseteq all
  BY UpFacts DEF Metadata
<1>18. Adds(Up19[18]) \subseteq all
  BY UpFacts DEF Metadata
<1>19. Adds(Up19[19]) \subseteq all
  BY UpFacts DEF Metadata
<1>20. UpState(19).schema \subseteq all
  BY <1>1, <1>2, <1>3, <1>4, <1>5, <1>6, <1>7, <1>8, <1>9, <1>10, <1>11, <1>12, <1>13,
     <1>14, <1>15, <1>16, <1>17, <1>18, <1>19, UpKinds DEF UpState, TablesUp, IndexesUp,
     StampsUp
<1>21. Table("alembic_version") \in UpState(19).schema
  BY UpFacts, InState
<1>22. Table("users") \in UpState(19).schema
  BY UpFacts, InState
<1>23. UniqueIndex("users", "email") \in UpState(19).schema
  BY UpFacts, InState
<1>24. Table("photos") \in UpState(19).schema
  BY UpFacts, InState
<1>25. Cascade("photos", "owner_id", "users") \in UpState(19).schema
  BY UpFacts, InState
<1>26. Index("photos", "owner_id") \in UpState(19).schema
  BY UpFacts, InState
<1>27. Table("thumbnails") \in UpState(19).schema
  BY UpFacts, InState
<1>28. Cascade("thumbnails", "photo_id", "photos") \in UpState(19).schema
  BY UpFacts, InState
<1>29. UniqueIndex("thumbnails", "photo_id") \in UpState(19).schema
  BY UpFacts, InState
<1>30. Table("flags") \in UpState(19).schema
  BY UpFacts, InState
<1>31. Cascade("flags", "photo_id", "photos") \in UpState(19).schema
  BY UpFacts, InState
<1>32. Cascade("flags", "reporter_id", "users") \in UpState(19).schema
  BY UpFacts, InState
<1>33. SetNull("flags", "resolved_by_id", "users") \in UpState(19).schema
  BY UpFacts, InState
<1>34. Unique("flags", "uq_flag_photo_reporter") \in UpState(19).schema
  BY UpFacts, InState
<1>35. Index("flags", "photo_id") \in UpState(19).schema
  BY UpFacts, InState
<1>36. Index("flags", "reporter_id") \in UpState(19).schema
  BY UpFacts, InState
<1>37. Index("flags", "status") \in UpState(19).schema
  BY UpFacts, InState
<1>38. Table("moderation_actions") \in UpState(19).schema
  BY UpFacts, InState
<1>39. SetNull("moderation_actions", "moderator_id", "users") \in UpState(19).schema
  BY UpFacts, InState
<1>40. Index("moderation_actions", "photo_id") \in UpState(19).schema
  BY UpFacts, InState
<1>41. Table("notifications") \in UpState(19).schema
  BY UpFacts, InState
<1>42. Index("notifications", "recipient_email") \in UpState(19).schema
  BY UpFacts, InState
<1>43. Index("notifications", "status") \in UpState(19).schema
  BY UpFacts, InState
<1>44. all \subseteq UpState(19).schema
  BY <1>21, <1>22, <1>23, <1>24, <1>25, <1>26, <1>27, <1>28, <1>29, <1>30, <1>31, <1>32,
     <1>33, <1>34, <1>35, <1>36, <1>37, <1>38, <1>39, <1>40, <1>41, <1>42, <1>43 DEF Metadata
<1> QED
  BY <1>20, <1>44

(* The head has every table a request or a task may need.                  *)
LEMMA TablesAtHead ==
  \A kind \in Kinds : Publishes(kind) \subseteq Tables(At[3].schema) /\ Reads(kind) \subseteq Publishes(kind)
<1>1. At[3].schema = Metadata \union {Table("alembic_version")}
  <2>1. UpFrom(3) = 19
    BY DEF UpFrom
  <2>2. At[3] = UpState(19)
    BY <2>1, AtStates
  <2> QED
    BY <2>2, HeadSchema
<1>2. \A t \in {"users", "photos", "thumbnails", "flags", "moderation_actions", "notifications"} :
        t \in Tables(At[3].schema)
  <2>1. \A t \in {"users", "photos", "thumbnails", "flags", "moderation_actions", "notifications"} :
          Table(t) \in At[3].schema
    BY <1>1 DEF Metadata
  <2> QED
    BY <2>1, InTables
<1> QED
  BY <1>2 DEF Kinds, Publishes, Reads

(* The statements still to run, one by one.                                *)
LEMMA NextOfRest ==
  ASSUME NEW all, Len(all) \in Nat, NEW k \in 0 .. Len(all)
  PROVE  /\ Rest(all, k) = <<>> <=> k = Len(all)
         /\ Rest(all, k) # <<>> => /\ k < Len(all) /\ Head(Rest(all, k)) = all[k + 1]
                                   /\ Tail(Rest(all, k)) = Rest(all, k + 1)
<1> DEFINE n == Len(all)
           s == Rest(all, k)
<1>1. n \in Nat /\ k \in 0 .. n
  OBVIOUS
<1>2. s = [i \in 1 .. n - k |-> all[k + i]] /\ Len(s) = n - k
  BY DEF Rest
<1>3. Rest(all, k + 1) = [i \in 1 .. n - (k + 1) |-> all[(k + 1) + i]]
  BY DEF Rest
<1> HIDE DEF s, n
<1>4. s = <<>> <=> k = n
  <2>1. s = <<>> => n - k = 0
    BY <1>1, <1>2
  <2>2. k = n => s = <<>>
    <3>1. k = n => 1 .. n - k = {}
      BY <1>1
    <3> QED
      BY <1>2, <3>1
  <2> QED
    BY <1>1, <2>1, <2>2
<1>5. ASSUME k < n
      PROVE  Head(s) = all[k + 1] /\ Tail(s) = Rest(all, k + 1)
  <2>1. Head(s) = all[k + 1]
    BY <1>1, <1>2, <1>5
  <2>2. Tail(s) = [i \in 1 .. (n - k) - 1 |-> s[i + 1]]
    BY <1>1, <1>2, <1>5
  <2>3. (n - k) - 1 = n - (k + 1)
    BY <1>1
  <2>4. ASSUME NEW i \in 1 .. n - (k + 1)
        PROVE  s[i + 1] = all[(k + 1) + i]
    <3>1. i + 1 \in 1 .. n - k /\ k + (i + 1) = (k + 1) + i
      BY <1>1, <1>5
    <3> QED
      BY <1>2, <3>1
  <2> QED
    BY <1>3, <2>1, <2>2, <2>3, <2>4
<1>6. s # <<>> => k < n
  BY <1>1, <1>4
<1> QED
  BY <1>4, <1>5, <1>6, Zenon DEF s, n

(* The same for the two lists of statements.                               *)
LEMMA NextStatement ==
  /\ \A k \in 0 .. 19 :
       /\ Rest(Up19, k) = <<>> => k = 19
       /\ Rest(Up19, k) # <<>> => /\ k < 19 /\ Head(Rest(Up19, k)) = Up19[k + 1]
                                  /\ Tail(Rest(Up19, k)) = Rest(Up19, k + 1)
  /\ \A k \in 0 .. 16 :
       /\ Rest(Down16, k) = <<>> => k = 16
       /\ Rest(Down16, k) # <<>> => /\ k < 16 /\ Head(Rest(Down16, k)) = Down16[k + 1]
                                    /\ Tail(Rest(Down16, k)) = Rest(Down16, k + 1)
<1>1. ASSUME NEW k \in 0 .. 19
      PROVE  /\ Rest(Up19, k) = <<>> => k = 19
             /\ Rest(Up19, k) # <<>> => /\ k < 19 /\ Head(Rest(Up19, k)) = Up19[k + 1]
                                        /\ Tail(Rest(Up19, k)) = Rest(Up19, k + 1)
  <2>1. Len(Up19) \in Nat /\ k \in 0 .. Len(Up19) /\ Len(Up19) = 19
    BY Lengths
  <2> QED
    BY <2>1, NextOfRest
<1>2. ASSUME NEW k \in 0 .. 16
      PROVE  /\ Rest(Down16, k) = <<>> => k = 16
             /\ Rest(Down16, k) # <<>> => /\ k < 16 /\ Head(Rest(Down16, k)) = Down16[k + 1]
                                          /\ Tail(Rest(Down16, k)) = Rest(Down16, k + 1)
  <2>1. Len(Down16) \in Nat /\ k \in 0 .. Len(Down16) /\ Len(Down16) = 16
    BY Lengths
  <2> QED
    BY <2>1, NextOfRest
<1> QED
  BY <1>1, <1>2, Zenon

(* A rest of a sequence is one.                                            *)
LEMMA RestIsSeq ==
  ASSUME NEW all, NEW n \in Nat, Len(all) = n, NEW k \in 0 .. n
  PROVE  \E S : Rest(all, k) \in Seq(S)
<1> DEFINE S == {all[k + i] : i \in 1 .. n - k}
<1>1. n - k \in Nat /\ \A i \in 1 .. n - k : all[k + i] \in S
  OBVIOUS
<1> HIDE DEF S
<1>2. [i \in 1 .. n - k |-> all[k + i]] \in Seq(S)
  BY <1>1
<1> QED
  BY <1>2 DEF Rest

(* What Alembic puts before the path: its own table.                       *)
Opening(d) == IF "alembic_version" \in Tables(d.schema) THEN <<>> ELSE <<VersionTable>>

(* Only an untouched database has to get the version table first.          *)
LEMMA TableFirst ==
  /\ Opening(Untouched) = <<VersionTable>>
  /\ \A r \in 0 .. 3 : Opening(At[r]) = <<>>
<1>1. Tables(Untouched.schema) = {}
  <2>1. Untouched.schema = {}
    BY DEF Untouched
  <2> QED
    BY <2>1 DEF Tables
<1>2. ASSUME NEW r \in 0 .. 3
      PROVE  "alembic_version" \in Tables(At[r].schema)
  <2>1. At[r] = UpState(UpFrom(r)) /\ UpFrom(r) \in 1 .. 19
    BY AtStates DEF UpFrom
  <2>2. Table("alembic_version") \in At[r].schema
    <3>1. 1 \in 1 .. UpFrom(r) /\ Table("alembic_version") \in Adds(Up19[1])
      BY <2>1, UpFacts
    <3> QED
      BY <2>1, <3>1, InState
  <2> QED
    BY <2>2, InTables
<1> QED
  BY <1>1, <1>2 DEF Opening

(* The plan of a migration that begins.                                    *)
LEMMA UpgradePlan ==
  ASSUME NEW d \in Revisions
  PROVE  /\ \E k \in 0 .. 19 : Opening(d) \o UpgradePath(d.version) = Rest(Up19, k) /\ d = UpState(k)
         /\ d = At[3] => Opening(d) \o UpgradePath(d.version) = <<>>
<1>0. At[3] # Untouched
  <2>1. At[3].version = 3 /\ Untouched.version = 0
    BY AtStates, Newest3 DEF Untouched
  <2> QED
    BY <2>1
<1>1. CASE d = Untouched
  <2>1. d.version = 0 /\ UpFrom(0) = 1
    BY <1>1, Newest3 DEF Untouched, UpFrom
  <2>2. UpgradePath(0) = Slice(Up19, 1, 18)
    <3>1. UpgradePath(0) = Rest(Up19, 1)
      BY <2>1, UpgradePaths
    <3>2. Rest(Up19, 1) = Slice(Up19, 1, 18)
      BY Lengths DEF Rest, Slice
    <3> QED
      BY <3>1, <3>2
  <2>3. Opening(d) = Slice(Up19, 0, 1)
    <3>1. Up19[0 + 1] = VersionTable
      BY DEF Up19
    <3>2. [i \in 1 .. 1 |-> Up19[0 + i]] = <<VersionTable>>
      BY <3>1
    <3> QED
      BY <1>1, <3>2, TableFirst, Zenon DEF Slice
  <2>4. Slice(Up19, 0, 1) \o Slice(Up19, 1, 18) = Slice(Up19, 0, 19)
    <3>1. Joins(Up19, 0, 1, 1, 18, 19)
      <4>1. 0 \in Nat /\ 1 \in Nat /\ 18 \in Nat /\ 19 \in Nat
        OBVIOUS
      <4>2. 1 = 0 + 1 /\ 19 = 1 + 18
        OBVIOUS
      <4> QED
        BY <4>1, <4>2, Glue, Zenon
    <3> QED
      BY <3>1, Zenon DEF Joins
  <2>5. Rest(Up19, 0) = Slice(Up19, 0, 19)
    BY Lengths DEF Rest, Slice
  <2>6. Opening(d) \o UpgradePath(d.version) = Rest(Up19, 0)
    BY <2>1, <2>2, <2>3, <2>4, <2>5, Zenon
  <2>7. d = UpState(0)
    BY <1>1, AtStates
  <2>8. 0 \in 0 .. 19
    OBVIOUS
  <2> QED
    BY <1>0, <1>1, <2>6, <2>7, <2>8, Zenon
<1>2. CASE d \in {At[r] : r \in 0 .. 3}
  <2>1. PICK r \in 0 .. 3 : d = At[r]
    BY <1>2
  <2>2. d.version = r /\ d = UpState(UpFrom(r)) /\ UpFrom(r) \in 0 .. 19
    BY <2>1, AtStates DEF UpFrom
  <2>3. Opening(d) = <<>> /\ UpgradePath(d.version) = Rest(Up19, UpFrom(r))
    <3>1. Opening(d) = <<>>
      BY <2>1, TableFirst, Zenon
    <3>2. UpgradePath(r) = Rest(Up19, UpFrom(r))
      BY UpgradePaths, Zenon
    <3> QED
      BY <2>2, <3>1, <3>2, Zenon
  <2>4. PICK S : Rest(Up19, UpFrom(r)) \in Seq(S)
    BY <2>2, Lengths, RestIsSeq
  <2>5. Opening(d) \o UpgradePath(d.version) = Rest(Up19, UpFrom(r))
    BY <2>3, <2>4, ConcatEmptySeq, Zenon
  <2>6. d = At[3] => Rest(Up19, UpFrom(r)) = <<>>
    <3>1. d = At[3] => r = 3
      BY <2>2, AtStates
    <3>2. r = 3 => UpFrom(r) = 19
      BY DEF UpFrom
    <3>3. Rest(Up19, 19) = <<>>
      BY Lengths DEF Rest
    <3> QED
      BY <3>1, <3>2, <3>3
  <2> QED
    BY <2>2, <2>5, <2>6, Zenon
<1> QED
  BY <1>1, <1>2 DEF Revisions

(* The plan of a downgrade that begins.                                    *)
LEMMA DowngradePlan ==
  ASSUME NEW d \in Revisions
  PROVE  \/ \E k \in 0 .. 16 : Opening(d) \o DowngradePath(d.version) = Rest(Down16, k) /\ d = DownState(k)
         \/ Opening(d) \o DowngradePath(d.version) = <<VersionTable>> /\ d = Untouched
<1>1. CASE d = Untouched
  <2>1. d.version = 0 /\ DownFrom(0) = 16
    BY <1>1, Newest3 DEF Untouched, DownFrom
  <2>2. DowngradePath(d.version) = <<>>
    <3>1. Rest(Down16, 16) = <<>>
      BY Lengths DEF Rest
    <3> QED
      BY <2>1, <3>1, DowngradePaths
  <2>3. <<VersionTable>> \o <<>> = <<VersionTable>>
    OBVIOUS
  <2> QED
    BY <1>1, <2>2, <2>3, TableFirst, Zenon
<1>2. CASE d \in {At[r] : r \in 0 .. 3}
  <2>1. PICK r \in 0 .. 3 : d = At[r]
    BY <1>2
  <2>2. d.version = r /\ DownFrom(r) \in 0 .. 16
    BY <2>1, AtStates DEF DownFrom
  <2>3. d = DownState(DownFrom(r))
    <3>1. d = UpState(UpFrom(r))
      BY <2>1, AtStates
    <3>2. /\ r = 0 => UpFrom(r) = 1 /\ DownFrom(r) = 16
          /\ r = 1 => UpFrom(r) = 8 /\ DownFrom(r) = 10
          /\ r = 2 => UpFrom(r) = 15 /\ DownFrom(r) = 4
          /\ r = 3 => UpFrom(r) = 19 /\ DownFrom(r) = 0
      BY DEF UpFrom, DownFrom
    <3>3. r = 0 \/ r = 1 \/ r = 2 \/ r = 3
      OBVIOUS
    <3> QED
      BY <3>1, <3>2, <3>3, DownAt, Zenon
  <2>4. Opening(d) = <<>> /\ DowngradePath(d.version) = Rest(Down16, DownFrom(r))
    <3>1. Opening(d) = <<>>
      BY <2>1, TableFirst, Zenon
    <3>2. DowngradePath(r) = Rest(Down16, DownFrom(r))
      BY DowngradePaths, Zenon
    <3> QED
      BY <2>2, <3>1, <3>2, Zenon
  <2>5. PICK S : Rest(Down16, DownFrom(r)) \in Seq(S)
    BY <2>2, Lengths, RestIsSeq
  <2>6. Opening(d) \o DowngradePath(d.version) = Rest(Down16, DownFrom(r))
    BY <2>4, <2>5, ConcatEmptySeq, Zenon
  <2> QED
    BY <2>2, <2>3, <2>6, Zenon
<1> QED
  BY <1>1, <1>2 DEF Revisions

-----------------------------------------------------------------------------
(* The services and what a step does to the one that takes it.             *)
States == Up \union {"created", "starting", "migrating", "exited", "absent"}
Exited == {p \in Services : pc[p] = "exited"}

(* The containers are finitely many.                                       *)
LEMMA Finite == IsFiniteSet(Services)
<1>1. IsFiniteSet({"api", "api-next", "worker", "pytest"})
  <2>1. /\ IsFiniteSet({})
        /\ IsFiniteSet({} \union {"api"})
        /\ IsFiniteSet(({} \union {"api"}) \union {"api-next"})
        /\ IsFiniteSet((({} \union {"api"}) \union {"api-next"}) \union {"worker"})
        /\ IsFiniteSet(((({} \union {"api"}) \union {"api-next"}) \union {"worker"}) \union {"pytest"})
    BY FS_EmptySet, FS_AddElement, Zenon
  <2>2. ((({} \union {"api"}) \union {"api-next"}) \union {"worker"}) \union {"pytest"}
          = {"api", "api-next", "worker", "pytest"}
    OBVIOUS
  <2> QED
    BY <2>1, <2>2
<1> QED
  BY <1>1, FS_Subset, DeploymentAssumption

(* One container moves.                                                    *)
LEMMA PcMoves ==
  ASSUME Types, NEW p \in Services, NEW v \in States, pc' = [pc EXCEPT ![p] = v]
  PROVE  /\ pc' \in [Services -> States]
         /\ pc'[p] = v
         /\ \A q \in Services : q # p => pc'[q] = pc[q]
BY DEF Types, States

(* A transaction that has done nothing sees the database.                  *)
LEMMA ViewNothing ==
  ASSUME NEW d \in Revisions
  PROVE  View(d, Nothing) = d
<1>1. \E k \in 0 .. 19 : d = UpState(k)
  <2>1. \A r \in 0 .. 3 : UpFrom(r) \in 0 .. 19
    BY DEF UpFrom
  <2> QED
    BY <2>1, AtStates DEF Revisions
<1>2. PICK k \in 0 .. 19 : d = UpState(k)
  BY <1>1
<1>3. d = [version |-> d.version, schema |-> d.schema]
  BY <1>2 DEF UpState
<1>4. View(d, Nothing).version = d.version /\ View(d, Nothing).schema = d.schema
  BY DEF View, Nothing, Unwritten
<1>5. View(d, Nothing) = [version |-> View(d, Nothing).version, schema |-> View(d, Nothing).schema]
  BY DEF View
<1> QED
  BY <1>3, <1>4, <1>5

(* A migration that is on its way and acts: the statement fits, and the    *)
(* next one will.                                                          *)
LEMMA StatementFits ==
  ASSUME NEW p \in Services, OnItsWay(p), plan[p] # <<>>
  PROVE  /\ Fits(Seen(p), Head(plan[p]))
         /\ LET rest == Tail(plan[p])
                view == View(db, Execute(db, tx[p], Head(plan[p])))
            IN  \/ \E k \in 0 .. 19 : rest = Rest(Up19, k) /\ view = UpState(k)
                \/ p = "pytest" /\ \E k \in 0 .. 16 : rest = Rest(Down16, k) /\ view = DownState(k)
<1> DEFINE s == Head(plan[p])
           view == View(db, Execute(db, tx[p], s))
<1>2. CASE Upgrading(p)
  <2>1. PICK k \in 0 .. 19 : plan[p] = Rest(Up19, k) /\ Seen(p) = UpState(k)
    BY <1>2 DEF Upgrading
  <2>2. k < 19 /\ s = Up19[k + 1] /\ Tail(plan[p]) = Rest(Up19, k + 1)
    BY <2>1, NextStatement
  <2>3. k \in 0 .. 18 /\ k + 1 \in 1 .. 19 /\ k + 1 \in 0 .. 19
    BY <2>2
  <2>4. s.op = "stamp" => s.to \in Nat
    BY <2>2, <2>3, UpKinds
  <2>5. Fits(Seen(p), s)
    BY <2>1, <2>2, <2>3, UpFits
  <2>6. view = UpState(k + 1)
    <3>1. view = Effect(Seen(p), s)
      BY <2>4, Executed DEF Seen
    <3> QED
      BY <2>1, <2>2, <2>3, <3>1, UpEffect
  <2> QED
    BY <2>2, <2>3, <2>5, <2>6
<1>3. CASE p = "pytest" /\ Downgrading(p)
  <2>1. PICK k \in 0 .. 16 : plan[p] = Rest(Down16, k) /\ Seen(p) = DownState(k)
    BY <1>3 DEF Downgrading
  <2>2. k < 16 /\ s = Down16[k + 1] /\ Tail(plan[p]) = Rest(Down16, k + 1)
    BY <2>1, NextStatement
  <2>3. k \in 0 .. 15 /\ k + 1 \in 1 .. 16 /\ k + 1 \in 0 .. 16
    BY <2>2
  <2>4. s.op = "stamp" => s.to \in Nat
    BY <2>2, <2>3, DownKinds
  <2>5. Fits(Seen(p), s)
    BY <2>1, <2>2, <2>3, DownFits
  <2>6. view = DownState(k + 1)
    <3>1. view = Effect(Seen(p), s)
      BY <2>4, Executed DEF Seen
    <3> QED
      BY <2>1, <2>2, <2>3, <3>1, DownEffect
  <2> QED
    BY <1>3, <2>2, <2>3, <2>5, <2>6
<1>4. CASE p = "pytest" /\ OnlyTable(p)
  <2>1. plan[p] = <<VersionTable>> /\ Seen(p) = UpState(0)
    BY <1>4, AtStates DEF OnlyTable
  <2>2. s = Up19[0 + 1] /\ Tail(plan[p]) = <<>>
    <3>1. Up19[0 + 1] = VersionTable
      BY DEF Up19
    <3> QED
      BY <2>1, <3>1
  <2>3. Rest(Down16, 16) = <<>>
    BY Lengths DEF Rest
  <2>4. s.op = "stamp" => s.to \in Nat
    BY <2>2, UpKinds
  <2>5. Fits(Seen(p), s)
    BY <2>1, <2>2, UpFits
  <2>6. view = DownState(16)
    <3>1. view = Effect(Seen(p), s)
      BY <2>4, Executed DEF Seen
    <3>2. Effect(UpState(0), Up19[0 + 1]) = UpState(0 + 1)
      BY UpEffect
    <3>3. 0 + 1 = 1
      OBVIOUS
    <3> QED
      BY <2>1, <2>2, <3>1, <3>2, <3>3, DownAt
  <2>7. 16 \in 0 .. 16
    OBVIOUS
  <2> QED
    BY <1>4, <2>2, <2>3, <2>5, <2>6, <2>7
<1> QED
  BY <1>2, <1>3, <1>4 DEF OnItsWay

(* A migration that has run all its statements sees a revision, and an     *)
(* upgrade the head.                                                       *)
LEMMA FinishedSees ==
  ASSUME NEW p \in Services, OnItsWay(p), plan[p] = <<>>
  PROVE  /\ Seen(p) \in Revisions
         /\ p # "pytest" => Seen(p) = At[3]
<1>1. UpFrom(3) = 19 /\ UpFrom(0) = 1 /\ At[3] \in Revisions /\ At[0] \in Revisions
  BY DEF UpFrom, Revisions
<1>2. CASE Upgrading(p)
  <2>1. PICK k \in 0 .. 19 : plan[p] = Rest(Up19, k) /\ Seen(p) = UpState(k)
    BY <1>2 DEF Upgrading
  <2>2. k = 19
    BY <2>1, NextStatement
  <2> QED
    BY <1>1, <2>1, <2>2, AtStates
<1>3. CASE p = "pytest" /\ Downgrading(p)
  <2>1. PICK k \in 0 .. 16 : plan[p] = Rest(Down16, k) /\ Seen(p) = DownState(k)
    BY <1>3 DEF Downgrading
  <2>2. k = 16
    BY <2>1, NextStatement
  <2> QED
    BY <1>1, <1>3, <2>1, <2>2, AtStates, DownAt
<1>4. ~ OnlyTable(p)
  BY DEF OnlyTable
<1> QED
  BY <1>2, <1>3, <1>4 DEF OnItsWay

-----------------------------------------------------------------------------
(* A step of one process that leaves the database and the messages alone.  *)
LEMMA OneProcess ==
  ASSUME DeploymentInv, Types', NEW p \in Services,
         db' = db, queue' = queue, missed' = missed,
         \A q \in Services \ {p} : pc'[q] = pc[q] /\ plan'[q] = plan[q] /\ tx'[q] = tx[q],
         pc[p] # "absent", pc'[p] # "absent",
         pc'[p] # "migrating" => plan'[p] = <<>> /\ tx'[p] = Nothing,
         pc'[p] \in {"starting", "migrating"} => p # "worker",
         pc'[p] = "migrating" => OnItsWay(p)',
         p \in Apis /\ pc'[p] \in Up => AtHead,
         p = "api-next" /\ pc'[p] # "created" => AtHead,
         p \in Apis /\ AtHead => plan'[p] = <<>> /\ tx'[p] = Nothing,
         OnlyKilledStop'
  PROVE  DeploymentInv'
<1>1. db' \in Revisions /\ AtHead' = AtHead
  BY DEF DeploymentInv, AtHead
<1>2. Alone'
  BY DEF DeploymentInv, Alone, Present
<1>3. Idle'
  BY DEF DeploymentInv, Idle
<1>4. Underway'
  <2>1. ASSUME NEW q \in Services, pc'[q] = "migrating"
        PROVE  OnItsWay(q)'
    <3>1. CASE q = p
      BY <2>1, <3>1
    <3>2. CASE q # p
      <4>1. OnItsWay(q)
        BY <2>1, <3>2 DEF DeploymentInv, Underway
      <4>2. plan'[q] = plan[q] /\ Seen(q)' = Seen(q)
        BY <3>2 DEF Seen
      <4>3. Upgrading(q) => Upgrading(q)'
        BY <4>2 DEF Upgrading
      <4>4. Downgrading(q) => Downgrading(q)'
        BY <4>2 DEF Downgrading
      <4>5. OnlyTable(q) => OnlyTable(q)'
        BY <4>2 DEF OnlyTable
      <4> QED
        BY <4>1, <4>3, <4>4, <4>5 DEF OnItsWay
    <3> QED
      BY <3>1, <3>2
  <2> QED
    BY <2>1 DEF Underway
<1>5. ServedAtHead'
  BY <1>1 DEF DeploymentInv, ServedAtHead, Apis
<1>6. CanaryAtHead'
  BY <1>1 DEF DeploymentInv, CanaryAtHead
<1>7. Settled'
  BY <1>1 DEF DeploymentInv, Settled, Apis
<1>8. QueueServed'
  BY DEF DeploymentInv, QueueServed, Present
<1>9. TablesFound'
  BY DEF DeploymentInv, TablesFound
<1> QED
  BY <1>1, <1>2, <1>3, <1>4, <1>5, <1>6, <1>7, <1>8, <1>9 DEF DeploymentInv

(* The count of what stands still.                                         *)
LEMMA CountKept ==
  ASSUME OnlyKilledStop, crashes' = crashes, ups' = ups,
         \A q \in Services : pc'[q] = "exited" <=> pc[q] = "exited"
  PROVE  OnlyKilledStop'
<1>1. {q \in Services : pc'[q] = "exited"} = {q \in Services : pc[q] = "exited"}
  OBVIOUS
<1> QED
  BY <1>1 DEF OnlyKilledStop

(* The invariant holds of every database a deployment starts on.           *)
LEMMA InitHolds == Init => DeploymentInv
<1> SUFFICES ASSUME Init
             PROVE  DeploymentInv
  OBVIOUS
<1>1. PICK present \in {Services \ {"pytest"}, Services \cap {"pytest"}} :
        pc = [p \in Services |-> IF p \in present THEN "created" ELSE "absent"]
  BY DEF Init
<1>2. \A p \in Services : pc[p] \in {"created", "absent"} /\ plan[p] = <<>> /\ tx[p] = Nothing
  BY <1>1 DEF Init
<1>3. Types
  <2>1. pc \in [Services -> Up \union {"created", "starting", "migrating", "exited", "absent"}]
    BY <1>1
  <2>2. plan = [p \in Services |-> plan[p]] /\ tx = [p \in Services |-> tx[p]]
    BY DEF Init
  <2>3. queue \subseteq Kinds /\ crashes \in Nat /\ ups \in Nat
    BY DEF Init
  <2> QED
    BY <2>1, <2>2, <2>3 DEF Types
<1>4. db \in Revisions
  BY Newest3 DEF Init, Revisions
<1>5. Alone
  BY <1>1 DEF Alone, Present
<1>6. Idle /\ Underway
  BY <1>2 DEF Idle, Underway
<1>7. ServedAtHead /\ CanaryAtHead /\ Settled
  BY <1>2 DEF ServedAtHead, CanaryAtHead, Settled, Apis, Up
<1>8. QueueServed /\ TablesFound
  BY DEF Init, QueueServed, TablesFound
<1>9. OnlyKilledStop
  <2>1. {p \in Services : pc[p] = "exited"} = {}
    BY <1>2
  <2>2. Cardinality({}) = 0
    BY FS_EmptySet
  <2>3. crashes = 0 /\ ups = 0
    BY DEF Init
  <2> QED
    BY <2>1, <2>2, <2>3 DEF OnlyKilledStop
<1> QED
  BY <1>3, <1>4, <1>5, <1>6, <1>7, <1>8, <1>9 DEF DeploymentInv

(* Compose starts a container.                                             *)
LEMMA StartHolds ==
  ASSUME DeploymentInv, NEW p \in Services, Start(p)
  PROVE  DeploymentInv'
<1> DEFINE v == IF p = "worker" THEN "serving" ELSE "starting"
<1>1. /\ p # "pytest" /\ pc[p] = "created" /\ MayStart(p)
      /\ pc' = [pc EXCEPT ![p] = v]
      /\ UNCHANGED <<db, plan, tx, queue, missed, crashes, ups>>
  BY DEF Start
<1>2. v \in States /\ v \notin {"absent", "migrating", "exited", "created"}
  BY DEF States, Up
<1>3. pc' \in [Services -> States] /\ pc'[p] = v /\ \A q \in Services : q # p => pc'[q] = pc[q]
  <2> HIDE DEF v
  <2> QED
    BY <1>1, <1>2, PcMoves DEF DeploymentInv
<1>4. Types'
  BY <1>1, <1>3 DEF DeploymentInv, Types, States
<1>5. plan'[p] = <<>> /\ tx'[p] = Nothing
  BY <1>1 DEF DeploymentInv, Idle
<1>6. p \in Apis => pc'[p] \notin Up
  BY <1>3 DEF Apis, Up
<1>7. p = "api-next" => AtHead
  <2>1. p = "api-next" => "api" \in Apis /\ pc["api"] = "healthy"
    BY <1>1, DeploymentAssumption DEF MayStart, Apis
  <2> QED
    BY <2>1 DEF DeploymentInv, ServedAtHead, Up
<1>8. OnlyKilledStop'
  <2>1. \A q \in Services : pc'[q] = "exited" <=> pc[q] = "exited"
    BY <1>1, <1>2, <1>3
  <2> QED
    BY <1>1, <2>1, CountKept DEF DeploymentInv
<1>9. pc'[p] \in {"starting", "migrating"} => p # "worker"
  BY <1>3
<1> HIDE DEF v
<1>10. /\ pc[p] # "absent" /\ pc'[p] # "absent" /\ pc'[p] # "migrating"
       /\ \A q \in Services \ {p} : pc'[q] = pc[q] /\ plan'[q] = plan[q] /\ tx'[q] = tx[q]
       /\ db' = db /\ queue' = queue /\ missed' = missed
  BY <1>1, <1>2, <1>3
<1> QED
  BY <1>4, <1>5, <1>6, <1>7, <1>8, <1>9, <1>10, OneProcess

(* A container becomes healthy.                                            *)
LEMMA HealthCheckHolds ==
  ASSUME DeploymentInv, NEW p \in Services, HealthCheck(p)
  PROVE  DeploymentInv'
<1>1. /\ p \in Apis /\ pc[p] = "serving" /\ pc' = [pc EXCEPT ![p] = "healthy"]
      /\ UNCHANGED <<db, plan, tx, queue, missed, crashes, ups>>
  BY DEF HealthCheck
<1>2. "healthy" \in States
  BY DEF States, Up
<1>3. pc' \in [Services -> States] /\ pc'[p] = "healthy" /\ \A q \in Services : q # p => pc'[q] = pc[q]
  BY <1>1, <1>2, PcMoves DEF DeploymentInv
<1>4. Types'
  BY <1>1, <1>3 DEF DeploymentInv, Types, States
<1>5. plan'[p] = <<>> /\ tx'[p] = Nothing
  BY <1>1 DEF DeploymentInv, Idle
<1>6. AtHead
  BY <1>1 DEF DeploymentInv, ServedAtHead, Up
<1>7. OnlyKilledStop'
  <2>1. \A q \in Services : pc'[q] = "exited" <=> pc[q] = "exited"
    BY <1>1, <1>3
  <2> QED
    BY <1>1, <2>1, CountKept DEF DeploymentInv
<1>8. /\ pc[p] # "absent" /\ pc'[p] # "absent" /\ pc'[p] # "migrating" /\ pc'[p] # "starting"
      /\ \A q \in Services \ {p} : pc'[q] = pc[q] /\ plan'[q] = plan[q] /\ tx'[q] = tx[q]
      /\ db' = db /\ queue' = queue /\ missed' = missed
  BY <1>1, <1>3
<1> QED
  BY <1>4, <1>5, <1>6, <1>7, <1>8, OneProcess

(* A container is killed; its transaction is rolled back.                  *)
LEMMA CrashHolds ==
  ASSUME DeploymentInv, NEW p \in Services, Crash(p)
  PROVE  DeploymentInv'
<1>1. /\ pc[p] \notin {"created", "exited", "absent"} /\ pc' = [pc EXCEPT ![p] = "exited"]
      /\ plan' = [plan EXCEPT ![p] = <<>>] /\ tx' = [tx EXCEPT ![p] = Nothing]
      /\ crashes' = crashes + 1 /\ UNCHANGED <<db, queue, missed, ups>>
  BY DEF Crash, Exit
<1>2. "exited" \in States
  BY DEF States
<1>3. pc' \in [Services -> States] /\ pc'[p] = "exited" /\ \A q \in Services : q # p => pc'[q] = pc[q]
  BY <1>1, <1>2, PcMoves DEF DeploymentInv
<1>4. /\ plan' = [q \in Services |-> IF q = p THEN <<>> ELSE plan[q]]
      /\ tx' = [q \in Services |-> IF q = p THEN Nothing ELSE tx[q]]
  BY <1>1 DEF DeploymentInv, Types
<1>5. Types'
  <2>1. plan' = [q \in Services |-> plan'[q]] /\ tx' = [q \in Services |-> tx'[q]]
    BY <1>4
  <2>2. queue' \subseteq Kinds /\ crashes' \in Nat /\ ups' \in Nat
    BY <1>1 DEF DeploymentInv, Types
  <2> QED
    BY <1>3, <2>1, <2>2 DEF Types, States
<1>6. p = "api-next" => AtHead
  BY <1>1 DEF DeploymentInv, CanaryAtHead
<1>7. OnlyKilledStop'
  <2> DEFINE E == {q \in Services : pc[q] = "exited"}
  <2>1. {q \in Services : pc'[q] = "exited"} = E \union {p}
    BY <1>3
  <2>2. p \notin E /\ IsFiniteSet(E)
    <3>1. E \subseteq Services
      OBVIOUS
    <3> QED
      BY <1>1, <3>1, Finite, FS_Subset
  <2>3. Cardinality(E) + ups = crashes
    BY DEF DeploymentInv, OnlyKilledStop
  <2>4. Cardinality(E) \in Nat /\ ups \in Nat /\ crashes \in Nat
    BY <2>2, FS_CardinalityType DEF DeploymentInv, Types
  <2> HIDE DEF E
  <2>5. Cardinality(E \union {p}) = Cardinality(E) + 1
    BY <2>2, FS_AddElement
  <2>6. Cardinality(E \union {p}) + ups' = crashes'
    BY <1>1, <2>3, <2>4, <2>5
  <2> QED
    BY <2>1, <2>6 DEF OnlyKilledStop
<1>8. /\ pc[p] # "absent" /\ pc'[p] = "exited" /\ plan'[p] = <<>> /\ tx'[p] = Nothing
      /\ \A q \in Services \ {p} : pc'[q] = pc[q] /\ plan'[q] = plan[q] /\ tx'[q] = tx[q]
      /\ db' = db /\ queue' = queue /\ missed' = missed
  BY <1>1, <1>3, <1>4
<1>9. pc'[p] \notin Up
  BY <1>8 DEF Up
<1> QED
  BY <1>5, <1>6, <1>7, <1>8, <1>9, OneProcess

(* docker compose up, once more.                                           *)
LEMMA UpAgainHolds ==
  ASSUME DeploymentInv, NEW p \in Services, UpAgain(p)
  PROVE  DeploymentInv'
<1>1. /\ pc[p] = "exited" /\ pc' = [pc EXCEPT ![p] = "created"] /\ ups' = ups + 1
      /\ UNCHANGED <<db, plan, tx, queue, missed, crashes>>
  BY DEF UpAgain
<1>2. "created" \in States
  BY DEF States
<1>3. pc' \in [Services -> States] /\ pc'[p] = "created" /\ \A q \in Services : q # p => pc'[q] = pc[q]
  BY <1>1, <1>2, PcMoves DEF DeploymentInv
<1>4. Types'
  BY <1>1, <1>3 DEF DeploymentInv, Types, States
<1>5. plan'[p] = <<>> /\ tx'[p] = Nothing
  BY <1>1 DEF DeploymentInv, Idle
<1>6. OnlyKilledStop'
  <2> DEFINE E == {q \in Services : pc[q] = "exited"}
  <2>1. {q \in Services : pc'[q] = "exited"} = E \ {p}
    BY <1>3
  <2>2. p \in E /\ IsFiniteSet(E)
    <3>1. E \subseteq Services
      OBVIOUS
    <3> QED
      BY <1>1, <3>1, Finite, FS_Subset
  <2>3. Cardinality(E) + ups = crashes
    BY DEF DeploymentInv, OnlyKilledStop
  <2>4. Cardinality(E) \in Nat /\ ups \in Nat /\ crashes \in Nat
    BY <2>2, FS_CardinalityType DEF DeploymentInv, Types
  <2> HIDE DEF E
  <2>5. Cardinality(E \ {p}) = Cardinality(E) - 1
    BY <2>2, FS_RemoveElement
  <2>6. Cardinality(E \ {p}) + ups' = crashes'
    BY <1>1, <2>3, <2>4, <2>5
  <2> QED
    BY <2>1, <2>6 DEF OnlyKilledStop
<1>7. /\ pc[p] # "absent" /\ pc'[p] = "created"
      /\ \A q \in Services \ {p} : pc'[q] = pc[q] /\ plan'[q] = plan[q] /\ tx'[q] = tx[q]
      /\ db' = db /\ queue' = queue /\ missed' = missed
  BY <1>1, <1>3
<1>8. pc'[p] \notin Up
  BY <1>7 DEF Up
<1> QED
  BY <1>4, <1>5, <1>6, <1>7, <1>8, OneProcess

(* A migration begins.                                                     *)
LEMMA MigrateHolds ==
  ASSUME DeploymentInv, NEW p \in Services, Migrate(p)
  PROVE  DeploymentInv'
<1> DEFINE up == Opening(db) \o UpgradePath(db.version)
           down == Opening(db) \o DowngradePath(db.version)
<1>1. /\ pc[p] \in {"starting", "created"} /\ pc' = [pc EXCEPT ![p] = "migrating"]
      /\ UNCHANGED <<db, tx, queue, missed, crashes, ups>>
      /\ p \in Apis => pc[p] = "starting"
  BY DEF Migrate, Begin, Apis
<1>2. \/ p \in Apis \union {"pytest"} /\ plan' = [plan EXCEPT ![p] = up]
      \/ p = "pytest" /\ plan' = [plan EXCEPT ![p] = down]
  BY Zenon DEF Migrate, Begin, Opening
<1>3. "migrating" \in States
  BY DEF States
<1>4. pc' \in [Services -> States] /\ pc'[p] = "migrating" /\ \A q \in Services : q # p => pc'[q] = pc[q]
  BY <1>1, <1>3, PcMoves DEF DeploymentInv
<1> HIDE DEF up, down
<1>5. \/ p \in Apis \union {"pytest"} /\ plan'[p] = up
      \/ p = "pytest" /\ plan'[p] = down
  <2>1. plan = [q \in Services |-> plan[q]]
    BY DEF DeploymentInv, Types
  <2>2. p \in DOMAIN plan
    BY <2>1
  <2> QED
    BY <1>2, <2>2
<1>6. /\ plan' = [q \in Services |-> plan'[q]]
      /\ \A q \in Services \ {p} : plan'[q] = plan[q]
  <2>1. plan = [q \in Services |-> plan[q]]
    BY DEF DeploymentInv, Types
  <2> QED
    BY <1>2, <2>1
<1>7. Types'
  BY <1>1, <1>4, <1>6 DEF DeploymentInv, Types, States
<1>8. db \in Revisions /\ tx[p] = Nothing /\ Seen(p)' = db
  <2>1. db \in Revisions /\ tx[p] = Nothing
    BY <1>1 DEF DeploymentInv, Idle
  <2>2. Seen(p)' = View(db, Nothing)
    BY <1>1, <2>1 DEF Seen
  <2> QED
    BY <2>1, <2>2, ViewNothing
<1>9. OnItsWay(p)'
  <2>1. CASE plan'[p] = up
    <3>1. \E k \in 0 .. 19 : up = Rest(Up19, k) /\ db = UpState(k)
      BY <1>8, UpgradePlan DEF up
    <3>2. Upgrading(p)'
      BY <1>8, <2>1, <3>1 DEF Upgrading
    <3> QED
      BY <3>2 DEF OnItsWay
  <2>2. CASE p = "pytest" /\ plan'[p] = down
    <3>1. \/ \E k \in 0 .. 16 : down = Rest(Down16, k) /\ db = DownState(k)
          \/ down = <<VersionTable>> /\ db = Untouched
      BY <1>8, DowngradePlan DEF down
    <3>2. Downgrading(p)' \/ OnlyTable(p)'
      BY <1>8, <2>2, <3>1 DEF Downgrading, OnlyTable
    <3> QED
      BY <2>2, <3>2 DEF OnItsWay
  <2> QED
    BY <1>5, <2>1, <2>2
<1>10. p \in Apis /\ AtHead => plan'[p] = <<>> /\ tx'[p] = Nothing
  <2>1. "pytest" \notin Apis
    BY DEF Apis
  <2>2. db = At[3] => up = <<>>
    BY <1>8, UpgradePlan DEF up
  <2> QED
    BY <1>1, <1>5, <1>8, <2>1, <2>2 DEF AtHead
<1>11. p # "worker"
  BY <1>5 DEF Apis
<1>12. p = "api-next" => AtHead
  <2>1. p = "api-next" => pc[p] = "starting"
    BY <1>1 DEF Apis
  <2> QED
    BY <2>1 DEF DeploymentInv, CanaryAtHead
<1>13. OnlyKilledStop'
  <2>1. \A q \in Services : pc'[q] = "exited" <=> pc[q] = "exited"
    BY <1>1, <1>4
  <2> QED
    BY <1>1, <2>1, CountKept DEF DeploymentInv
<1>14. /\ pc[p] # "absent" /\ pc'[p] = "migrating"
       /\ \A q \in Services \ {p} : pc'[q] = pc[q] /\ plan'[q] = plan[q] /\ tx'[q] = tx[q]
       /\ db' = db /\ queue' = queue /\ missed' = missed
  BY <1>1, <1>4, <1>6
<1>15. pc'[p] \notin Up
  BY <1>14 DEF Up
<1> QED
  BY <1>7, <1>9, <1>10, <1>11, <1>12, <1>13, <1>14, <1>15, OneProcess

(* It executes a statement.                                                *)
LEMMA StatementHolds ==
  ASSUME DeploymentInv, NEW p \in Services, Statement(p)
  PROVE  DeploymentInv'
<1>1. pc[p] = "migrating" /\ plan[p] # <<>> /\ OnItsWay(p)
  BY DEF Statement, DeploymentInv, Underway
<1> DEFINE s == Head(plan[p])
           view == View(db, Execute(db, tx[p], s))
<1>2. Fits(Seen(p), s)
  BY <1>1, StatementFits
<1>3. /\ tx' = [tx EXCEPT ![p] = Execute(db, tx[p], s)] /\ plan' = [plan EXCEPT ![p] = Tail(plan[p])]
      /\ UNCHANGED <<pc, db, queue, missed, crashes, ups>>
  BY <1>2 DEF Statement
<1>4. /\ plan' = [q \in Services |-> IF q = p THEN Tail(plan[p]) ELSE plan[q]]
      /\ tx' = [q \in Services |-> IF q = p THEN Execute(db, tx[p], s) ELSE tx[q]]
  <2> HIDE DEF s
  <2> QED
    BY <1>3 DEF DeploymentInv, Types
<1>5. Types'
  <2>1. plan' = [q \in Services |-> plan'[q]] /\ tx' = [q \in Services |-> tx'[q]]
    BY <1>4
  <2>2. queue' \subseteq Kinds /\ crashes' \in Nat /\ ups' \in Nat /\ pc' = pc
    BY <1>3 DEF DeploymentInv, Types
  <2> QED
    BY <2>1, <2>2 DEF DeploymentInv, Types
<1>6. /\ plan'[p] = Tail(plan[p]) /\ tx'[p] = Execute(db, tx[p], s)
      /\ \A q \in Services \ {p} : plan'[q] = plan[q] /\ tx'[q] = tx[q]
  <2> HIDE DEF s
  <2> QED
    BY <1>4
<1>7. Seen(p)' = view
  BY <1>3, <1>6 DEF Seen
<1>8. OnItsWay(p)'
  <2>1. \/ \E k \in 0 .. 19 : Tail(plan[p]) = Rest(Up19, k) /\ view = UpState(k)
        \/ p = "pytest" /\ \E k \in 0 .. 16 : Tail(plan[p]) = Rest(Down16, k) /\ view = DownState(k)
    BY <1>1, StatementFits, Zenon
  <2> HIDE DEF view
  <2> QED
    BY <1>6, <1>7, <2>1, Zenon DEF OnItsWay, Upgrading, Downgrading
<1>9. ~ (p \in Apis /\ AtHead)
  BY <1>1 DEF DeploymentInv, Settled
<1>10. p # "worker" /\ (p = "api-next" => AtHead)
  BY <1>1 DEF DeploymentInv, Idle, CanaryAtHead
<1>11. OnlyKilledStop'
  BY <1>3, CountKept DEF DeploymentInv
<1>12. /\ pc[p] = "migrating" /\ pc'[p] = "migrating"
       /\ \A q \in Services \ {p} : pc'[q] = pc[q] /\ plan'[q] = plan[q] /\ tx'[q] = tx[q]
       /\ db' = db /\ queue' = queue /\ missed' = missed
  BY <1>1, <1>3, <1>6
<1>13. pc'[p] \notin Up
  BY <1>12 DEF Up
<1> QED
  BY <1>5, <1>8, <1>9, <1>10, <1>11, <1>12, <1>13, OneProcess

(* The one step that changes the database.                                 *)
LEMMA CommitHolds ==
  ASSUME DeploymentInv, NEW p \in Services, Commit(p)
  PROVE  DeploymentInv'
<1>1. pc[p] = "migrating" /\ plan[p] = <<>> /\ OnItsWay(p)
  BY DEF Commit, DeploymentInv, Underway
<1> DEFINE v == IF p = "pytest" THEN "created" ELSE "serving"
<1>2. /\ db' = Seen(p) /\ tx' = [tx EXCEPT ![p] = Nothing] /\ pc' = [pc EXCEPT ![p] = v]
      /\ UNCHANGED <<plan, queue, missed, crashes, ups>>
  BY DEF Commit
<1>3. v \in States /\ v \notin {"absent", "migrating", "exited", "starting"}
  BY DEF States, Up
<1>4. pc' \in [Services -> States] /\ pc'[p] = v /\ \A q \in Services : q # p => pc'[q] = pc[q]
  <2> HIDE DEF v
  <2> QED
    BY <1>2, <1>3, PcMoves DEF DeploymentInv
<1>5. tx' = [q \in Services |-> IF q = p THEN Nothing ELSE tx[q]]
  BY <1>2 DEF DeploymentInv, Types
<1>6. db' \in Revisions /\ (p # "pytest" => db' = At[3])
  BY <1>1, <1>2, FinishedSees
<1>7. p # "worker"
  BY <1>1 DEF DeploymentInv, Idle
<1>8. Types'
  <2>1. tx' = [q \in Services |-> tx'[q]]
    BY <1>5
  <2>2. queue' \subseteq Kinds /\ crashes' \in Nat /\ ups' \in Nat /\ plan' = plan
    BY <1>2 DEF DeploymentInv, Types
  <2> QED
    BY <1>4, <2>1, <2>2 DEF DeploymentInv, Types, States
<1>9. plan'[p] = <<>> /\ tx'[p] = Nothing /\ \A q \in Services : q # p => tx'[q] = tx[q]
  BY <1>1, <1>2, <1>5
<1>10. Alone'
  BY <1>1, <1>3, <1>4 DEF DeploymentInv, Alone, Present
<1>11. Idle'
  <2> HIDE DEF v
  <2> QED
    BY <1>2, <1>3, <1>4, <1>9 DEF DeploymentInv, Idle
<1>12. OnlyKilledStop'
  <2>1. \A q \in Services : pc'[q] = "exited" <=> pc[q] = "exited"
    <3> HIDE DEF v
    <3> QED
      BY <1>1, <1>3, <1>4
  <2> QED
    BY <1>2, <2>1, CountKept DEF DeploymentInv
<1>13. TablesFound'
  BY <1>2 DEF DeploymentInv, TablesFound
<1>14. CASE p = "pytest"
  <2>1. \A q \in Services : q # p => pc'[q] = "absent" /\ plan'[q] = <<>> /\ tx'[q] = Nothing
    BY <1>1, <1>2, <1>4, <1>9, <1>14 DEF DeploymentInv, Alone, Present, Idle
  <2>2. Underway'
    <3> HIDE DEF v
    <3> QED
      BY <1>3, <1>4, <2>1 DEF Underway
  <2>3. \A q \in Apis : q # p /\ q \in Services
    BY <1>14 DEF Apis
  <2>4. ServedAtHead' /\ Settled'
    BY <2>1, <2>3 DEF ServedAtHead, Settled, Up
  <2>5. CanaryAtHead' /\ QueueServed'
    BY <1>14, <2>1 DEF CanaryAtHead, QueueServed, Present
  <2> QED
    BY <1>6, <1>8, <1>10, <1>11, <1>12, <1>13, <2>2, <2>4, <2>5 DEF DeploymentInv
<1>15. CASE p # "pytest"
  <2>1. db' = At[3] /\ p \in Apis
    BY <1>6, <1>7, <1>15, DeploymentAssumption DEF Apis
  <2>2. AtHead'
    BY <2>1 DEF AtHead
  <2>3. ASSUME NEW q \in Services, q # p, pc[q] = "migrating"
        PROVE  q \in Apis /\ AtHead
    <3>1. q # "pytest" /\ q # "worker"
      BY <1>1, <1>15, <2>3 DEF DeploymentInv, Alone, Present, Idle
    <3>2. q \in Apis
      BY <3>1, DeploymentAssumption DEF Apis
    <3>3. q = "api-next" \/ p = "api-next"
      BY <2>1, <2>3, <3>2 DEF Apis
    <3>4. AtHead
      BY <1>1, <2>3, <3>3 DEF DeploymentInv, CanaryAtHead
    <3> QED
      BY <3>2, <3>4
  <2>4. \A q \in Apis : plan'[q] = <<>> /\ tx'[q] = Nothing
    <3>1. ASSUME NEW q \in Apis
          PROVE  plan'[q] = <<>> /\ tx'[q] = Nothing
      <4>1. q \in Services
        BY DEF Apis
      <4>2. CASE q = p
        BY <1>9, <4>2
      <4>3. CASE q # p /\ pc[q] = "migrating"
        BY <1>2, <1>9, <2>3, <4>1, <4>3 DEF DeploymentInv, Settled
      <4>4. CASE q # p /\ pc[q] # "migrating"
        BY <1>2, <1>9, <4>1, <4>4 DEF DeploymentInv, Idle
      <4> QED
        BY <4>2, <4>3, <4>4
    <3> QED
      BY <3>1
  <2>5. Underway'
    <3>1. ASSUME NEW q \in Services, pc'[q] = "migrating"
          PROVE  OnItsWay(q)'
      <4>1. q # p /\ pc[q] = "migrating"
        <5> HIDE DEF v
        <5> QED
          BY <1>3, <1>4, <3>1
      <4>2. q \in Apis
        BY <2>3, <4>1
      <4>3. plan'[q] = <<>> /\ tx'[q] = Nothing
        BY <2>4, <4>2
      <4>4. Seen(q)' = At[3]
        <5>1. Seen(q)' = View(At[3], Nothing)
          BY <2>1, <4>3 DEF Seen
        <5>2. At[3] \in Revisions
          BY DEF Revisions
        <5> QED
          BY <5>1, <5>2, ViewNothing
      <4>5. plan'[q] = Rest(Up19, 19) /\ Seen(q)' = UpState(19) /\ 19 \in 0 .. 19
        <5>1. Rest(Up19, 19) = <<>> /\ UpFrom(3) = 19
          BY Lengths DEF Rest, UpFrom
        <5> QED
          BY <4>3, <4>4, <5>1, AtStates
      <4>6. Upgrading(q)'
        BY <4>5 DEF Upgrading
      <4> QED
        BY <4>6 DEF OnItsWay
    <3> QED
      BY <3>1 DEF Underway
  <2>6. ServedAtHead' /\ CanaryAtHead'
    BY <2>2 DEF ServedAtHead, CanaryAtHead
  <2>7. Settled'
    BY <2>4 DEF Settled
  <2>8. QueueServed'
    <3>1. queue' \subseteq Kinds
      BY <1>8 DEF Types
    <3> QED
      BY <2>1, <3>1, TablesAtHead DEF QueueServed
  <2> QED
    BY <1>6, <1>8, <1>10, <1>11, <1>12, <1>13, <2>5, <2>6, <2>7, <2>8 DEF DeploymentInv
<1> QED
  BY <1>14, <1>15

(* An API process serves a request.                                        *)
LEMMA RequestHolds ==
  ASSUME DeploymentInv, NEW p \in Apis, NEW kind \in Kinds, Request(p, kind)
  PROVE  DeploymentInv'
<1>1. AtHead
  BY DEF Request, DeploymentInv, ServedAtHead
<1>2. Publishes(kind) \subseteq Tables(db.schema)
  BY <1>1, TablesAtHead DEF AtHead
<1>3. queue' = queue \union {kind} /\ missed' = missed /\ UNCHANGED <<db, pc, plan, tx, crashes, ups>>
  BY <1>2 DEF Request
<1>4. Types'
  BY <1>3 DEF DeploymentInv, Types
<1>5. QueueServed'
  BY <1>2, <1>3 DEF DeploymentInv, QueueServed, Present
<1>6. Underway'
  BY <1>3 DEF DeploymentInv, Underway, OnItsWay, Upgrading, Downgrading, OnlyTable, Seen
<1>7. (ServedAtHead /\ CanaryAtHead /\ Settled)'
  BY <1>3 DEF DeploymentInv, ServedAtHead, CanaryAtHead, Settled, AtHead
<1>8. (Alone /\ Idle /\ TablesFound /\ OnlyKilledStop)'
  BY <1>3 DEF DeploymentInv, Alone, Present, Idle, TablesFound, OnlyKilledStop
<1> QED
  BY <1>3, <1>4, <1>5, <1>6, <1>7, <1>8 DEF DeploymentInv

(* The worker works on a message.                                          *)
LEMMA WorkHolds ==
  ASSUME DeploymentInv, NEW kind \in Kinds, Work(kind)
  PROVE  DeploymentInv'
<1>1. Present("worker") /\ kind \in queue
  BY DEF Work, Present, Up
<1>2. Reads(kind) \subseteq Tables(db.schema)
  BY <1>1, TablesAtHead DEF DeploymentInv, QueueServed
<1>3. queue' = queue \ {kind} /\ missed' = missed /\ UNCHANGED <<db, pc, plan, tx, crashes, ups>>
  BY <1>2 DEF Work
<1>4. Types'
  BY <1>3 DEF DeploymentInv, Types
<1>5. QueueServed'
  BY <1>3 DEF DeploymentInv, QueueServed, Present
<1>6. Underway'
  BY <1>3 DEF DeploymentInv, Underway, OnItsWay, Upgrading, Downgrading, OnlyTable, Seen
<1>7. (ServedAtHead /\ CanaryAtHead /\ Settled)'
  BY <1>3 DEF DeploymentInv, ServedAtHead, CanaryAtHead, Settled, AtHead
<1>8. (Alone /\ Idle /\ TablesFound /\ OnlyKilledStop)'
  BY <1>3 DEF DeploymentInv, Alone, Present, Idle, TablesFound, OnlyKilledStop
<1> QED
  BY <1>3, <1>4, <1>5, <1>6, <1>7, <1>8 DEF DeploymentInv

(* Nothing happens.                                                        *)
LEMMA StutterHolds ==
  ASSUME DeploymentInv, UNCHANGED vars
  PROVE  DeploymentInv'
<1>1. UNCHANGED <<db, pc, plan, tx, queue, missed, crashes, ups>>
  BY DEF vars
<1>2. Underway'
  BY <1>1 DEF DeploymentInv, Underway, OnItsWay, Upgrading, Downgrading, OnlyTable, Seen
<1>3. (ServedAtHead /\ CanaryAtHead /\ Settled)'
  BY <1>1 DEF DeploymentInv, ServedAtHead, CanaryAtHead, Settled, AtHead
<1>4. (Types /\ Alone /\ Idle /\ QueueServed /\ TablesFound /\ OnlyKilledStop)'
  BY <1>1 DEF DeploymentInv, Types, Alone, Present, Idle, QueueServed, TablesFound,
     OnlyKilledStop
<1> QED
  BY <1>1, <1>2, <1>3, <1>4 DEF DeploymentInv

(* Every step keeps the invariant.                                         *)
LEMMA NextHolds == DeploymentInv /\ [Next]_vars => DeploymentInv'
<1> SUFFICES ASSUME DeploymentInv, [Next]_vars
             PROVE  DeploymentInv'
  OBVIOUS
<1>1. ASSUME NEW p \in Services, Turn(p)
      PROVE  DeploymentInv'
  BY <1>1, StartHolds, MigrateHolds, StatementHolds, CommitHolds, HealthCheckHolds DEF Turn
<1>2. ASSUME NEW p \in Services, Crash(p) \/ UpAgain(p)
      PROVE  DeploymentInv'
  BY <1>2, CrashHolds, UpAgainHolds
<1>3. ASSUME NEW p \in Apis, NEW kind \in Kinds, Request(p, kind)
      PROVE  DeploymentInv'
  BY <1>3, RequestHolds
<1>4. ASSUME NEW kind \in Kinds, Work(kind)
      PROVE  DeploymentInv'
  BY <1>4, WorkHolds
<1>5. CASE UNCHANGED vars
  BY <1>5, StutterHolds
<1> QED
  BY <1>1, <1>2, <1>3, <1>4, <1>5 DEF Next

(* The invariant of a deployment, for any number of kills and of restarts. *)
THEOREM DeploymentInvHolds == Spec => []DeploymentInv
<1>1. Init => DeploymentInv
  BY InitHolds
<1>2. DeploymentInv /\ [Next]_vars => DeploymentInv'
  BY NextHolds
<1> QED
  BY <1>1, <1>2, PTL DEF Spec

(* Whatever migration is killed at whatever statement, the committed       *)
(* schema is the one alembic_version records: env.py runs each migration   *)
(* in one transaction, up and down.                                        *)
THEOREM MigrationsAtomic == Spec => []SchemaOfRevision
<1>1. DeploymentInv => SchemaOfRevision
  <2>1. ASSUME NEW r \in 0 .. 3, db = At[r]
        PROVE  db = At[db.version]
    <3>1. At[r].version = r
      BY AtStates
    <3> QED
      BY <2>1, <3>1
  <2> QED
    BY <2>1 DEF DeploymentInv, Revisions, SchemaOfRevision
<1> QED
  BY <1>1, DeploymentInvHolds, PTL

(* An API that answers works on the tables, indexes and keys of its        *)
(* models, whatever revision entrypoint.sh found the database at.          *)
THEOREM ApiServesItsSchema == Spec => []ServesItsSchema
<1>1. DeploymentInv => ServesItsSchema
  <2>1. UpFrom(3) = 19
    BY DEF UpFrom
  <2>2. At[3].schema = Metadata \union {Table("alembic_version")}
    BY <2>1, AtStates, HeadSchema
  <2> QED
    BY <2>2 DEF DeploymentInv, ServedAtHead, AtHead, ServesItsSchema
<1> QED
  BY <1>1, DeploymentInvHolds, PTL

(* No request and no task meets a missing table, although the worker of    *)
(* docker-compose.yml waits for no migration.                              *)
THEOREM NobodyMissesTables == Spec => []TablesFound
<1>1. DeploymentInv => TablesFound
  BY DEF DeploymentInv
<1> QED
  BY <1>1, DeploymentInvHolds, PTL

(* No migration fails: what has stopped was killed.                        *)
THEOREM MigrationsSucceed == Spec => []OnlyKilledStop
<1>1. DeploymentInv => OnlyKilledStop
  BY DEF DeploymentInv
<1> QED
  BY <1>1, DeploymentInvHolds, PTL

(* Type correctness of the containers and their database.                  *)
THEOREM DeploymentTypeCorrect == Spec => []TypeOK
<1> DEFINE Bounded == crashes \in 0 .. MaxCrashes /\ ups \in 0 .. MaxUps
<1>1. Init => Bounded
  BY DeploymentAssumption DEF Init
<1>2. DeploymentInv /\ Bounded /\ [Next]_vars => Bounded'
  <2> SUFFICES ASSUME Bounded, [Next]_vars
               PROVE  Bounded'
    OBVIOUS
  <2>1. \/ UNCHANGED <<crashes, ups>>
        \/ crashes < MaxCrashes /\ crashes' = crashes + 1 /\ ups' = ups
        \/ ups < MaxUps /\ ups' = ups + 1 /\ crashes' = crashes
    BY DEF Next, vars, Turn, Start, Migrate, Begin, Statement, Commit, HealthCheck,
       Crash, UpAgain,
           Request, Work
  <2> QED
    BY <2>1, DeploymentAssumption
<1>3. DeploymentInv /\ Bounded => TypeOK
  <2> SUFFICES ASSUME DeploymentInv, Bounded
               PROVE  TypeOK
    OBVIOUS
  <2>1. db.version \in Base .. Newest
    <3>1. CASE db = Untouched
      BY <3>1, Newest3 DEF Untouched
    <3>2. ASSUME NEW r \in 0 .. 3, db = At[r]
          PROVE  db.version \in Base .. Newest
      BY <3>2, Newest3, AtStates
    <3> QED
      BY <3>1, <3>2 DEF DeploymentInv, Revisions
  <2>2. missed \subseteq Services
    BY DEF DeploymentInv, TablesFound
  <2>3. \A p \in Services : plan[p] # <<>> \/ tx[p] # Nothing => pc[p] = "migrating"
    BY DEF DeploymentInv, Idle
  <2> QED
    BY <2>1, <2>2, <2>3 DEF TypeOK, DeploymentInv, Types
<1> HIDE DEF Bounded
<1> QED
  BY <1>1, <1>2, <1>3, DeploymentInvHolds, PTL DEF Spec

=============================================================================
