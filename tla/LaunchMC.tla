------------------------------ MODULE LaunchMC ------------------------------
(* Instances of Launch for TLC. *)
EXTENDS Launch, TLC
CONSTANTS w1, w2

Port == [name |-> "PORT", value |-> 0]
OldCsp == [name |-> "CSP_HOSTS", value |-> 0]
SavedCsp == [name |-> "CSP_HOSTS_OLD", value |-> 0]
Tale(own, image, size, ok) ==
    [own |-> own, image |-> image, memLimit |-> size, wellFormed |-> ok]

SomeTales ==
    {Tale({<<SavedCsp, Port>>}, {}, [type |-> "int", val |-> 512], TRUE),
     Tale({<<Port>>}, {<<OldCsp>>}, [type |-> "str", val |-> 4, suffix |-> "k"], TRUE),
     Tale({}, {<<OldCsp, OldCsp>>}, [type |-> "str", val |-> 4, suffix |-> "t"], TRUE),
     Tale({}, {}, [type |-> "none"], FALSE)}
Symmetry == Permutations(Workers)
=============================================================================
