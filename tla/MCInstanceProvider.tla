------------------------ MODULE MCInstanceProvider --------------------------
(* Instances of InstanceProvider. *)
EXTENDS InstanceProvider

Plain(w)  == [vmss |-> FALSE, rest |-> w]
Vmss(w)   == [vmss |-> TRUE, rest |-> w]
Labels(p) == [k \in Keys |-> CASE k = "provisioner-name" -> p
                               [] k = "machine-type" -> "mine" [] OTHER -> "x"]
Asks(sizes, p) == [sizes |-> sizes, labels |-> Labels(p)]

\* A machine, a pool of the cluster's own, and a machine whose name is "vmss"
\* alone; then a name that is too long.
MCOrder    == <<Plain("a"), Plain("sys"), Vmss(""), Plain("long")>>
MCMachines == {Plain("a"), Vmss(""), Plain("long")}
MCTooLong  == {Plain("long")}
MCSpecOf(m)  == IF m = Plain("a") THEN Asks({"N1", "N2"}, "mine")
              ELSE Asks({"D1"}, Unset)
=============================================================================
