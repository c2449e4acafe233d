------------------------------- MODULE MCNet -------------------------------
(* The parts of the network code, which share no state here, each explored  *)
(* by itself.                                                               *)
EXTENDS Tcp, Dhcp, MCShare, E1000, TLC

VARIABLE part

Parts == {"tcp", "dhcp", "share", "card"}

NetInit ==
  /\ part \in Parts
  /\ Init /\ DhcpInit /\ ShareInit /\ E1000Init

(* What the parts other than p keep.                                        *)
OthersKeep(p) ==
  /\ part = p /\ part' = p
  /\ p = "tcp" \/ UNCHANGED vars
  /\ p = "dhcp" \/ UNCHANGED dhcpvars
  /\ p = "share" \/ UNCHANGED sharevars
  /\ p = "card" \/ UNCHANGED e1000vars

NetNext ==
  \/ OthersKeep("tcp") /\ Next
  \/ OthersKeep("dhcp") /\ DhcpNext
  \/ OthersKeep("share") /\ ShareNext
  \/ OthersKeep("card") /\ E1000Next

NetSpec == NetInit /\ [][NetNext]_<<part, vars, dhcpvars, sharevars, e1000vars>>

(* Types of the network's state.                                            *)
NetTypeOK == TypeOK /\ DhcpTypeOK /\ ShareTypeOK /\ E1000TypeOK

MCAsking == {1, 3, 4, 6}

(* Bound: beyond the first stray reply, mixed-up transfer or nested drain,  *)
(* where the properties claim nothing any more, nothing is explored.        *)
MCUndisturbed == ~stray /\ ~mixed /\ ~nested /\ pc # "closed"

(* The part explored; the others keep their initial values.                 *)
MCView == <<part, CASE part = "tcp" -> vars
                    [] part = "dhcp" -> dhcpvars
                    [] part = "share" -> sharevars
                    [] part = "card" -> e1000vars>>
=============================================================================
