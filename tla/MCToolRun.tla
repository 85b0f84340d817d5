----------------------------- MODULE MCToolRun ------------------------------
EXTENDS ToolRun

\* A descendant in the group, which may end at once, or one that left it.
MCFamilies == {{"child"}, {"escapee"}}

\* OOM evidence does not depend on the readers: late ones are checked without.
MCMaxKills == [p \in BOOLEAN |-> IF p THEN 1 ELSE 0]
MCMaxBytes == [p \in BOOLEAN |-> IF p THEN 3 ELSE 2]

\* All of the isolation, or all but the wrapper.
MCIsolations ==
  [p \in BOOLEAN |-> IF p THEN {Canonical, Canonical \ {"wrapper"}} ELSE {Canonical}]
=============================================================================
