----------------------------- MODULE Migrations -----------------------------
(***************************************************************************)
(* The Alembic revisions of app/alembic/versions, as the statements they   *)
(* run, and the schema PostgreSQL holds before and after each statement.   *)
(*                                                                         *)
(* A schema is a set of objects: tables, indexes, unique constraints and   *)
(* foreign keys.  Columns that carry no index and no key are left out.     *)
(***************************************************************************)
EXTENDS Integers, Sequences, SequencesExt

(* The objects of a schema.                                                *)
Table(t) == [kind |-> "table", table |-> t, on |-> "", to |-> ""]
Index(t, c) == [kind |-> "index", table |-> t, on |-> c, to |-> ""]
UniqueIndex(t, c) == [kind |-> "unique_index", table |-> t, on |-> c, to |-> ""]
Unique(t, name) == [kind |-> "unique", table |-> t, on |-> name, to |-> ""]
Cascade(t, c, u) == [kind |-> "cascade", table |-> t, on |-> c, to |-> u]
SetNull(t, c, u) == [kind |-> "set_null", table |-> t, on |-> c, to |-> u]

(* The statements: op.create_table with its constraints, op.create_index,  *)
(* op.drop_index, op.drop_table, and the write of alembic_version that     *)
(* Alembic adds after each revision.                                       *)
CreateTable(t, constraints) == [op |-> "create_table", table |-> t, objects |-> {Table(t)} \union constraints]
CreateIndex(index) == [op |-> "create_index", table |-> index.table, objects |-> {index}]
DropIndex(index) == [op |-> "drop_index", table |-> index.table, objects |-> {index}]
DropTable(t) == [op |-> "drop_table", table |-> t, objects |-> {Table(t)}]
Stamp(from, to) == [op |-> "stamp", table |-> "alembic_version", from |-> from, to |-> to]

Tables(schema) == {o.table : o \in {obj \in schema : obj.kind = "table"}}
IsKey(o) == o.kind \in {"cascade", "set_null"}
-----------------------------------------------------------------------------
Upgrade1 == <<
  CreateTable("users", {}),
  CreateIndex(UniqueIndex("users", "email")),
  CreateTable("photos", {Cascade("photos", "owner_id", "users")}),
  CreateIndex(Index("photos", "owner_id")),
  CreateTable("thumbnails", {Cascade("thumbnails", "photo_id", "photos")}),
  CreateIndex(UniqueIndex("thumbnails", "photo_id")) >>

\* Mutant: the photos are dropped before the thumbnails that refer to them.
Downgrade1ParentFirst == <<
  DropIndex(Index("photos", "owner_id")),
  DropTable("photos"),
  DropTable("thumbnails"),
  DropIndex(UniqueIndex("users", "email")),
  DropTable("users") >>

Downgrade1 == <<
  DropTable("thumbnails"),
  DropIndex(Index("photos", "owner_id")),
  DropTable("photos"),
  DropIndex(UniqueIndex("users", "email")),
  DropTable("users") >>

Upgrade2 == <<
  CreateTable("flags", {Cascade("flags", "photo_id", "photos"),
                        Cascade("flags", "reporter_id", "users"),
                        SetNull("flags", "resolved_by_id", "users"),
                        Unique("flags", "uq_flag_photo_reporter")}),
  CreateIndex(Index("flags", "photo_id")),
  CreateIndex(Index("flags", "reporter_id")),
  CreateIndex(Index("flags", "status")),
  CreateTable("moderation_actions", {SetNull("moderation_actions", "moderator_id", "users")}),
  CreateIndex(Index("moderation_actions", "photo_id")) >>

Downgrade2 == <<
  DropTable("moderation_actions"),
  DropIndex(Index("flags", "status")),
  DropIndex(Index("flags", "reporter_id")),
  DropIndex(Index("flags", "photo_id")),
  DropTable("flags") >>

\* Mutant: an index of the models forgotten in the migration.
Upgrade3NoIndex == <<
  CreateTable("notifications", {}),
  CreateIndex(Index("notifications", "recipient_email")) >>

Upgrade3 == <<
  CreateTable("notifications", {}),
  CreateIndex(Index("notifications", "recipient_email")),
  CreateIndex(Index("notifications", "status")) >>

Downgrade3 == <<
  DropIndex(Index("notifications", "status")),
  DropIndex(Index("notifications", "recipient_email")),
  DropTable("notifications") >>

(* The chain of down_revision: revision r follows r - 1, and 0 is "base",  *)
(* recorded by an alembic_version table without a row.                     *)
Upgrades == <<Upgrade1, Upgrade2, Upgrade3>>
Downgrades == <<Downgrade1, Downgrade2, Downgrade3>>
Base == 0
Newest == Len(Upgrades)

(* `alembic upgrade head` from a revision, `alembic downgrade base`.       *)
UpgradePath(from) ==
  FlattenSeq([i \in 1 .. Newest - from |-> Append(Upgrades[from + i], Stamp(from + i - 1, from + i))])
DowngradePath(from) ==
  FlattenSeq([i \in 1 .. from |-> Append(Downgrades[from + 1 - i], Stamp(from + 1 - i, from - i))])
-----------------------------------------------------------------------------
(* Whether a statement succeeds on the database it sees.  A table that a   *)
(* foreign key refers to cannot be dropped.  The version row is written    *)
(* only over the version Alembic read.                                     *)
Fits(db, s) ==
  LET tables == Tables(db.schema) IN
  CASE s.op = "create_table" -> /\ s.table \notin tables
                                /\ \A o \in s.objects : IsKey(o) => o.to \in tables
    [] s.op = "create_index" -> s.table \in tables /\ s.objects \cap db.schema = {}
    [] s.op = "drop_index" -> s.objects \subseteq db.schema
    [] s.op = "drop_table" -> /\ s.table \in tables
                              /\ \A o \in db.schema : IsKey(o) /\ o.to = s.table => o.table = s.table
    [] s.op = "stamp" -> db.version = s.from

(* The objects a statement makes and those it takes away: dropping a table *)
(* takes its indexes and constraints with it.                              *)
Adds(s) == IF s.op \in {"create_table", "create_index"} THEN s.objects ELSE {}
Drops(schema, s) ==
  {o \in schema : \/ s.op = "drop_index" /\ o \in s.objects
                  \/ s.op = "drop_table" /\ o.table = s.table}

(* A transaction: the tables it touched, what it made and took away, and   *)
(* the version it wrote.  It sees the committed database with its own      *)
(* changes.                                                                *)
Unwritten == -1
Nothing == [touched |-> {}, added |-> {}, dropped |-> {}, version |-> Unwritten]
View(db, tx) ==
  [version |-> IF tx.version = Unwritten THEN db.version ELSE tx.version,
   schema |-> (db.schema \ tx.dropped) \union tx.added]
Execute(db, tx, s) ==
  LET gone == Drops(View(db, tx).schema, s) IN
  [touched |-> tx.touched \union {s.table},
   added |-> (tx.added \ gone) \union Adds(s),
   dropped |-> tx.dropped \union gone,
   version |-> IF s.op = "stamp" THEN s.to ELSE tx.version]

(* A database Alembic never saw, and one that was brought to revision r:   *)
(* Alembic's own table and what the revisions up to r create.              *)
VersionTable == CreateTable("alembic_version", {})
Untouched == [version |-> Base, schema |-> {}]
Created(statements) == UNION {Adds(statements[i]) : i \in DOMAIN statements}
At == [r \in Base .. Newest |->
         [version |-> r,
          schema |-> VersionTable.objects \union UNION {Created(Upgrades[i]) : i \in 1 .. r}]]

(* The tables the code works with: Base.metadata of app/models.            *)
Metadata ==
  {Table(t) : t \in {"users", "photos", "thumbnails", "flags", "moderation_actions", "notifications"}}
    \union {UniqueIndex("users", "email"), UniqueIndex("thumbnails", "photo_id"),
            Index("photos", "owner_id"), Index("flags", "photo_id"), Index("flags", "reporter_id"),
            Index("flags", "status"), Index("moderation_actions", "photo_id"),
            Index("notifications", "recipient_email"), Index("notifications", "status"),
            Unique("flags", "uq_flag_photo_reporter"),
            Cascade("photos", "owner_id", "users"), Cascade("thumbnails", "photo_id", "photos"),
            Cascade("flags", "photo_id", "photos"), Cascade("flags", "reporter_id", "users"),
            SetNull("flags", "resolved_by_id", "users"),
            SetNull("moderation_actions", "moderator_id", "users")}
=============================================================================
