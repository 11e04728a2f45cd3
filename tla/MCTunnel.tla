------------------------------ MODULE MCTunnel ------------------------------
(***************************************************************************)
(* An instance of Tunnel for TLC: every way to configure authentication,   *)
(* two attempts, two dials.                                                *)
(***************************************************************************)
EXTENDS Tunnel

MCBlocks ==
    {[host |-> "plain", port |-> 0, user |-> "plain", use_agent |-> a,
      identity_file |-> i, passphrase |-> "", password |-> p,
      known_hosts_file |-> "${unset}", insecure |-> k] :
        a \in BOOLEAN, i \in {"", "plain", "${unset}"},
        p \in {"", "plain${unset}", "${unset}"}, k \in BOOLEAN}
=============================================================================
