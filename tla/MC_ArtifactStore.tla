-------------------------- MODULE MC_ArtifactStore --------------------------
\* Two instances of the store in one run: long sequences of the operations on
\* versions, and short ones of the others with a sweep
EXTENDS ArtifactStore

Versions == [kinds |-> {"publish", "current", "remove_version", "remove"},
             who |-> {"alice"}, ops |-> 5]
Records == [kinds |-> Kinds \ {"current", "remove_version"},
            who |-> Principals, ops |-> 3]
MCMenus == {Versions, Records}
=============================================================================
