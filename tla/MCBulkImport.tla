----------------------------- MODULE MCBulkImport -----------------------------
(* Instances of BulkImport for TLC. *)
EXTENDS BulkImport

CONSTANTS u1, u2, k1

TwoUploads == {u1, u2}
AllPaths == {"queued", "progress", "multiple"}
OneKey == {k1}
TwoTables == {"Users", "UserApplications"}
UsersOnly == {"Users"}

R(f) == [key |-> k1, form |-> f]
F(t, r) == [table |-> t, rows |-> r]

\* A file that is malformed in part, and assignments of which one is unlinked;
\* both rows of a file have the one key, so any two uploads can collide.
SmallFiles ==
  {F("Users", <<R("malformed"), R("ok")>>),
   F("UserApplications", <<R("unlinked"), R("ok")>>)}
=============================================================================
