----------------------------- MODULE MCDeployment -----------------------------
EXTENDS Deployment

CONSTANTS drive, share

MCName == {"S", "t", "a", "A", "log", "f"}
MCRoot == {drive, share}
MCRootRel == [r \in Root |-> IF r = drive THEN <<>> ELSE <<"S">>]
MCRel == {<<"S">>, <<"t">>, <<"S", "a">>, <<"S", "A">>, <<"S", "log">>, <<"S", "log", "f">>}
MCFold == [p \in Rel |-> IF p = <<"S", "A">> THEN <<"S", "a">> ELSE p]
MCOpaque == {<<"S", "log">>}
MCWritten == [s \in Root \X Rel |-> IF s[2] = <<"t">> THEN -7 ELSE 11]

Tree(dirs, files) ==
    [p \in Rel |-> IF p \in dirs THEN "dir" ELSE IF p \in files THEN "file" ELSE "none"]

NoTree == Tree({}, {})
One(tree) == [r \in Root |-> IF r = share THEN tree ELSE NoTree]
Small == One(Tree({<<"S">>}, {<<"S", "a">>}))
Deep == One(Tree({<<"S">>, <<"S", "log">>}, {<<"S", "A">>, <<"S", "log", "f">>}))
Clash == One(Tree({<<"S">>}, {<<"S", "a">>, <<"S", "log">>}))
Both == [r \in Root |-> IF r = share THEN Tree({<<"S">>}, {<<"S", "A">>})
                       ELSE Tree({<<"S">>}, {<<"t">>, <<"S", "a">>})]
MCFirstKinds == {Small, Deep, Clash, Both}

Local(dirs, files) ==
    [p \in Rel |-> IF p \in dirs THEN Folder ELSE IF p \in files THEN Copy(Nobody, 5) ELSE Absent]
Empty == Local({}, {})
Logged == Local({<<"S">>, <<"S", "log">>}, {<<"S", "a">>, <<"S", "log", "f">>})
MCFirstDisks == {Empty, Logged}

\* log/, a, and the name of the shared folder itself, S/
LogDir == [dirOnly |-> TRUE, matches |-> {<<"S", "log">>}]
AName == [dirOnly |-> FALSE, matches |-> {<<"S", "a">>, <<"S", "A">>}]
TopDir == [dirOnly |-> TRUE, matches |-> {<<"S">>}]

Classic == Text(TRUE, TRUE, [k \in {"streams"} |-> 1], {LogDir}, TRUE, 0)
Parallel == Text(TRUE, TRUE, [k \in {"allowIp"} |-> ""], {AName}, TRUE, 0)
Cutover == Text(TRUE, TRUE, [k \in {"streams", "cutover"} |-> IF k = "cutover" THEN TRUE ELSE 4],
                {TopDir}, FALSE, 0)
MCSavedTexts == {Classic, Parallel, Cutover}

IgnoreA == [ignore |-> {{AName}}, streams |-> {}]
Streams1 == [ignore |-> {}, streams |-> {1}]
MCOverrides == {NoOverride, IgnoreA, Streams1}

Scenario(s, k, d, overrides, f, e, c, n) ==
    [saved |-> s, kind |-> k, disk |-> d, overrides |-> overrides,
     faults |-> f, edits |-> e, cuts |-> c, runs |-> n]
\* Launches in trouble with a small folder, then sessions in trouble after plain
\* launches: ignored folders, a name of two kinds, two folders of one name.
MCScenarios ==
    {Scenario(s, Small, Empty, {NoOverride}, 2, 0, 1, 1) : s \in MCSavedTexts}
    \union {Scenario(Classic, Deep, Empty, MCOverrides, 0, 0, 1, 2),
            Scenario(Classic, Deep, Logged, MCOverrides, 0, 1, 1, 2),
            Scenario(Classic, Clash, Logged, MCOverrides, 0, 1, 0, 2),
            Scenario(Parallel, Deep, Logged, {NoOverride}, 0, 0, 1, 2),
            Scenario(Parallel, Both, Empty, {NoOverride}, 0, 0, 1, 2),
            Scenario(Classic, Both, Logged, {NoOverride}, 0, 0, 1, 2)}
================================================================================
