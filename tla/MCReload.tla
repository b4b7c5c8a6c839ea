------------------------------- MODULE MCReload -------------------------------
(***************************************************************************)
(* Instances of Reload for TLC: two interfaces exist, a third does not.    *)
(***************************************************************************)
EXTENDS Reload, TLC

LOCAL Setting(dep, sec, wan, lan, iface) ==
    [dep |-> dep, sec |-> sec, wan |-> wan, lan |-> lan, iface |-> iface,
     cap |-> IF dep = "HOST" THEN iface ELSE lan]

\* A gateway without a WAN interface cannot be set up.
FirstSettings == {Setting("HOST", "IDS", "eth0", "eth1", "eth0"),
                  Setting("NETWORK", "IDS", NoName, "eth1", "eth1")}

\* Changes of every field, one that is refused in part and one that names an interface
\* that is not there.
SomeBodies == {"dep" :> "HOST" @@ "sec" :> "IPS",
               "dep" :> "GATEWAY" @@ "lan" :> "eth0" @@ "wan" :> "eth1",
               "sec" :> "IDS",
               "dep" :> "NETWORK" @@ "sec" :> "none",
               "iface" :> "eth9" @@ "wan" :> "eth9",
               "dep" :> "none"}
===============================================================================
