--------------------------- MODULE MCMcpToolCall ---------------------------
(* McpToolCall with one tool that writes and one that deletes.  The first  *)
(* was reviewed again: version two binds a second resource and requires a  *)
(* transaction with a plan to undo it, version three goes with a new       *)
(* descriptor.  One more version would let deletions pass, and one was     *)
(* edited without being sealed again.                                      *)
EXTENDS McpToolCall

Both == {"write", "delete"}

D(tool, input, hints) ==
    [name |-> tool, input |-> input, hints |-> hints, taskRequired |-> FALSE, bounded |-> TRUE]
WriteDescriptor == D("write", "schema1", {})
NewWriteDescriptor == D("write", "schema2", {})
DeleteDescriptor == D("delete", "schema1", {"idempotent"})
AllDescriptors == {WriteDescriptor, NewWriteDescriptor, DeleteDescriptor}

Binding(pointer) == [pointer |-> pointer, type |-> "workspace_path", permission |-> "write"]

WriteContract ==
    [descriptor |-> WriteDescriptor, bindings |-> {Binding("path")}, mode |-> "allow",
     risk |-> "state_change", mutating |-> TRUE, destructive |-> FALSE, openWorld |-> FALSE,
     idempotent |-> FALSE, transaction |-> FALSE, rollback |-> FALSE, server |-> "workspace",
     capabilities |-> {"cap.resource.write"}, maxSize |-> 2]
DeleteContract ==
    [WriteContract EXCEPT !.descriptor = DeleteDescriptor, !.mode = "review_required",
     !.risk = "destructive", !.destructive = TRUE, !.idempotent = TRUE]

Profile(write, delete, sealed) ==
    [id |-> "workspace", sealed |-> sealed, protocols |-> {"2026-07-28"},
     order |-> <<"write", "delete">>,
     tools |-> [t \in {"write", "delete"} |-> IF t = "write" THEN write ELSE delete]]

Version1 == Profile(WriteContract, DeleteContract, TRUE)
Version2 == Profile([WriteContract EXCEPT !.bindings = {Binding("path"), Binding("backup")},
                                          !.transaction = TRUE, !.rollback = TRUE],
                    DeleteContract, TRUE)
Version3 == Profile([WriteContract EXCEPT !.descriptor = NewWriteDescriptor], DeleteContract, TRUE)
Unreviewed == Profile(WriteContract, [DeleteContract EXCEPT !.mode = "allow"], TRUE)
Unsealed == Profile([WriteContract EXCEPT !.bindings = {}], DeleteContract, FALSE)
Versions == {Version1, Version2, Version3, Unreviewed, Unsealed}

Call(id, tool, args) ==
    [id |-> id, tool |-> tool, args |-> args, protocol |-> "2026-07-28", headers |-> "named",
     task |-> FALSE, mrtr |-> FALSE, sensitive |-> FALSE, completed |-> TRUE]
Requests == {Call(1, "write", "ab"), Call(2, "write", "ab"), Call(1, "delete", "ab")}

(* The model was given the function with the schema of version one.        *)
Given == {[name |-> "write", parameters |-> "schema1", strict |-> TRUE]}

Values == [a \in {"ab", "up"} |->
              [p \in {"path", "backup"} |->
                  IF a = "up" THEN "../a" ELSE IF p = "path" THEN "./a" ELSE "b"]]
Sizes == [a \in {"ab", "up"} |-> 1]
Schemas == [i \in {"schema1", "schema2"} |-> {"ab", "up"}]
NormalForms == [v \in {"a", "./a", "b"} |-> IF v = "b" THEN "b" ELSE "a"]

Reports == {[authenticated |-> TRUE, server |-> "workspace", schema |-> "passed",
             capabilities |-> {"cap.resource.write"}, resolution |-> "passed", symlinks |-> TRUE]}
Once == [profile |-> 1, descriptor |-> 1]
Answers == {"approved"}
Plans == {[status |-> "prepared", rollback |-> r, plan |-> TRUE] : r \in BOOLEAN}
=============================================================================
