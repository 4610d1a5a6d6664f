--------------------------- MODULE MCGroupCommit ----------------------------
(* Instances of GroupCommit for TLC. *)
EXTENDS GroupCommit, TLC

CONSTANTS k1, k2, s1, v1, v2

\* The statements clients issue.
Nothing == [kind |-> "plain", reads |-> {}, scans |-> {}, new |-> << >>,
            puts |-> << >>, deletes |-> {}]
PutData == [Nothing EXCEPT !.puts = k1 :> v1]
DeleteData == [Nothing EXCEPT !.deletes = {k1}]
InsertRow == [Nothing EXCEPT !.kind = "insert", !.new = <<[key |-> k1, val |-> v2]>>]
ReplaceRow == [InsertRow EXCEPT !.deletes = {k1}, !.puts = k2 :> v1]
InsertTwice == [Nothing EXCEPT !.kind = "insert",
                !.new = <<[key |-> k2, val |-> v1], [key |-> k2, val |-> v2]>>]
UpdateRow == [Nothing EXCEPT !.kind = "validated", !.reads = {k1}, !.puts = k1 :> v2]
MoveRow == [Nothing EXCEPT !.kind = "validated", !.reads = {k1}, !.puts = k2 :> v2,
            !.deletes = {k1}]
AddIfNone == [Nothing EXCEPT !.kind = "validated", !.scans = {{k1, k2}}, !.puts = k2 :> v1]
CreateTable == [Nothing EXCEPT !.kind = "insert", !.new = <<[key |-> s1, val |-> v1]>>]
AlterTable == [Nothing EXCEPT !.kind = "validated", !.reads = {s1}, !.puts = s1 :> v2]
DropTable == [Nothing EXCEPT !.deletes = {s1}]

Data == {PutData, DeleteData, InsertRow, ReplaceRow, InsertTwice, UpdateRow, MoveRow, AddIfNone}
Ddl == {CreateTable, AlterTable, DropTable}
Some == {DeleteData, InsertRow, UpdateRow}
Schema == Ddl \cup {PutData}

\* The writer and the store read neither the cache nor the log: views for the
\* properties that do not mention them.
WithoutCacheOrLog == <<storeVars, loopVars, clientVars, envVars>>
WithoutCache == <<WithoutCacheOrLog, replVars>>

Symmetry == Permutations(Client)
=============================================================================
