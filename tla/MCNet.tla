------------------------------- MODULE MCNet --------------------------------
(***************************************************************************)
(* The network components that share no state, checked side by side: a      *)
(* behaviour chooses one of them and runs it alone.                        *)
(***************************************************************************)
EXTENDS Web, Gmac, Emac, Mii, Ping, TftpPut

\* Addresses of PHYs and registers, and what registers may hold at first:
\* their own address, or its complement.
MCPhy   == {<<0, 1>>, <<1, 0>>}
MCGPhy  == <<0, 1>>
MCRegAd == {<<0, 0>>, <<1, 1>>}
Contents == {[r \in RegAd |-> r], [r \in RegAd |-> [i \in 1 .. DataBits |-> 1 - r[i]]]}

VARIABLE job      \* the component that runs

Init ==
  /\ job \in {"web", "gmac", "emac", "mii", "ping", "put"}
  /\ WebInit /\ PingInit /\ PutInit
  /\ GmacInit /\ (job = "gmac" \/ cable)
  /\ EmacInit /\ (job = "emac" \/ (chip = "emac" /\ macOn))
  /\ MiiInit /\ \A p \in Phy : reg[p] \in Contents
  /\ job = "mii" \/ (phyDrv = "emac" /\ \A p \in Phy, r \in RegAd : reg[p][r] = r)

Next ==
  /\ UNCHANGED job
  /\ \/ job = "web"  /\ WebNext  /\ UNCHANGED <<gmacVars, emacVars, miiVars, pingVars, putVars>>
     \/ job = "gmac" /\ GmacNext /\ UNCHANGED <<webVars, emacVars, miiVars, pingVars, putVars>>
     \/ job = "emac" /\ EmacNext /\ UNCHANGED <<webVars, gmacVars, miiVars, pingVars, putVars>>
     \/ job = "mii"  /\ MiiNext  /\ UNCHANGED <<webVars, gmacVars, emacVars, pingVars, putVars>>
     \/ job = "ping" /\ PingNext /\ UNCHANGED <<webVars, gmacVars, emacVars, miiVars, putVars>>
     \/ job = "put"  /\ PutNext  /\ UNCHANGED <<webVars, gmacVars, emacVars, miiVars, pingVars>>

Spec == Init /\ [][Next]_<<job, webVars, gmacVars, emacVars, miiVars, pingVars, putVars>>
=============================================================================
