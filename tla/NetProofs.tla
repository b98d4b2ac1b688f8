----------------------------- MODULE NetProofs ------------------------------
(***************************************************************************)
(* What comes by network, proved for every value of the constants: an      *)
(* address, the time, and a new kernel.                                    *)
(***************************************************************************)
EXTENDS NetLinks, TLAPS
-----------------------------------------------------------------------------
(* An address (Dhcp).                                                      *)

(* No address, no event and no message at first: Interface::new.           *)
LEMMA DhcpInit == Dhcp!Init => Dhcp!LeaseInv
  BY DhcpAssumption
  DEF Dhcp!Init, Dhcp!LeaseInv, Dhcp!LeaseTypes, Dhcp!Leases, Dhcp!OneServerEach, Dhcp!Discovering, Dhcp!None,
      Dhcp!AddressGranted, Dhcp!StatusFollows

(* poll sends its messages and keeps the address.                          *)
LEMMA DhcpPoll ==
  ASSUME Dhcp!LeaseInv, Dhcp!Client
  PROVE  Dhcp!LeaseInv' /\ Dhcp!LostOnlyByNakStep
<1>1. CASE Dhcp!PollDiscovering
  <2>1. Dhcp!LeaseTypes'
    <3>1. v1' \in Dhcp!Leases
      BY <1>1, DhcpAssumption
      DEF Dhcp!PollDiscovering, Dhcp!Discovering, Dhcp!Discover, Dhcp!LeaseInv, Dhcp!LeaseTypes,
          Dhcp!Leases, Dhcp!Replies, Dhcp!None
    <3>2. v6' \subseteq Dhcp!Questions(v5')
      BY <1>1
      DEF Dhcp!PollDiscovering, Dhcp!Discovering, Dhcp!Discover, Dhcp!LeaseInv, Dhcp!LeaseTypes,
          Dhcp!Leases, Dhcp!Replies, Dhcp!Questions, Dhcp!OneServerEach, Dhcp!None
    <3>3. v7' \subseteq Dhcp!Replies(v5')
      BY <1>1, Zenon
      DEF Dhcp!PollDiscovering, Dhcp!LeaseInv, Dhcp!LeaseTypes, Dhcp!Replies
    <3> QED
      BY <1>1, <3>1, <3>2, <3>3, Zenon
      DEF Dhcp!PollDiscovering, Dhcp!LeaseInv, Dhcp!LeaseTypes
  <2>2. Dhcp!OneServerEach'
    BY <1>1
    DEF Dhcp!PollDiscovering, Dhcp!Discovering, Dhcp!Discover, Dhcp!Request, Dhcp!LeaseInv,
        Dhcp!LeaseTypes, Dhcp!Leases, Dhcp!Questions, Dhcp!Replies, Dhcp!OneServerEach, Dhcp!None
  <2>3. Dhcp!AddressGranted'
    BY <1>1, Zenon
    DEF Dhcp!PollDiscovering, Dhcp!Discovering, Dhcp!Discover, Dhcp!Reply, Dhcp!LeaseInv,
        Dhcp!LeaseTypes, Dhcp!Replies, Dhcp!AddressGranted, Dhcp!None
  <2>4. Dhcp!StatusFollows'
    BY <1>1, Zenon
    DEF Dhcp!PollDiscovering, Dhcp!LeaseInv, Dhcp!StatusFollows
  <2>5. Dhcp!LostOnlyByNakStep
    BY <1>1, Zenon
    DEF Dhcp!PollDiscovering, Dhcp!LostOnlyByNakStep
  <2> QED
    BY <2>1, <2>2, <2>3, <2>4, <2>5, Zenon DEF Dhcp!LeaseInv
<1>2. CASE Dhcp!PollRequesting
  <2>1. Dhcp!LeaseTypes'
    <3>1. v1' \in Dhcp!Leases
      BY <1>2, DhcpAssumption
      DEF Dhcp!PollRequesting, Dhcp!Requesting, Dhcp!Request, Dhcp!LeaseInv, Dhcp!LeaseTypes,
          Dhcp!Leases, Dhcp!Replies, Dhcp!None
    <3>2. v6' \subseteq Dhcp!Questions(v5')
      BY <1>2
      DEF Dhcp!PollRequesting, Dhcp!Requesting, Dhcp!Request, Dhcp!LeaseInv, Dhcp!LeaseTypes,
          Dhcp!Leases, Dhcp!Replies, Dhcp!Questions, Dhcp!OneServerEach, Dhcp!None
    <3>3. v7' \subseteq Dhcp!Replies(v5')
      BY <1>2, Zenon
      DEF Dhcp!PollRequesting, Dhcp!LeaseInv, Dhcp!LeaseTypes, Dhcp!Replies
    <3> QED
      BY <1>2, <3>1, <3>2, <3>3, Zenon
      DEF Dhcp!PollRequesting, Dhcp!LeaseInv, Dhcp!LeaseTypes
  <2>2. Dhcp!OneServerEach'
    BY <1>2
    DEF Dhcp!PollRequesting, Dhcp!Requesting, Dhcp!Request, Dhcp!LeaseInv, Dhcp!LeaseTypes,
        Dhcp!Leases, Dhcp!Questions, Dhcp!Replies, Dhcp!OneServerEach, Dhcp!None
  <2>3. Dhcp!AddressGranted'
    BY <1>2, Zenon
    DEF Dhcp!PollRequesting, Dhcp!Requesting, Dhcp!Request, Dhcp!Reply, Dhcp!LeaseInv,
        Dhcp!LeaseTypes, Dhcp!Replies, Dhcp!AddressGranted, Dhcp!None
  <2>4. Dhcp!StatusFollows'
    BY <1>2, Zenon
    DEF Dhcp!PollRequesting, Dhcp!LeaseInv, Dhcp!StatusFollows
  <2>5. Dhcp!LostOnlyByNakStep
    BY <1>2, Zenon
    DEF Dhcp!PollRequesting, Dhcp!LostOnlyByNakStep
  <2> QED
    BY <2>1, <2>2, <2>3, <2>4, <2>5, Zenon DEF Dhcp!LeaseInv
<1>3. CASE Dhcp!PollStartsOver
  <2>1. Dhcp!LeaseTypes'
    <3>1. v1' \in Dhcp!Leases
      BY <1>3, DhcpAssumption
      DEF Dhcp!PollStartsOver, Dhcp!Discovering, Dhcp!Discover, Dhcp!LeaseInv, Dhcp!LeaseTypes,
          Dhcp!Leases, Dhcp!Replies, Dhcp!None
    <3>2. v6' \subseteq Dhcp!Questions(v5')
      BY <1>3
      DEF Dhcp!PollStartsOver, Dhcp!Discovering, Dhcp!Discover, Dhcp!LeaseInv, Dhcp!LeaseTypes,
          Dhcp!Leases, Dhcp!Replies, Dhcp!Questions, Dhcp!OneServerEach, Dhcp!None
    <3>3. v7' \subseteq Dhcp!Replies(v5')
      BY <1>3
      DEF Dhcp!PollStartsOver, Dhcp!LeaseInv, Dhcp!LeaseTypes, Dhcp!Replies
    <3> QED
      BY <1>3, DhcpAssumption, <3>1, <3>2, <3>3
      DEF Dhcp!PollStartsOver, Dhcp!LeaseInv, Dhcp!LeaseTypes
  <2>2. Dhcp!OneServerEach'
    <3>1. \A m \in v6 : m.xid # v5 + 1
      BY DEF Dhcp!LeaseInv, Dhcp!LeaseTypes, Dhcp!Questions
    <3>2. v1'.state = "Discovering" /\ v1'.xid = v5' /\ v5' = v5 + 1 /\ v7' = v7
      BY <1>3, Zenon DEF Dhcp!PollStartsOver, Dhcp!Discovering
    <3>3. v6' = v6 \cup {[kind |-> "Discover", xid |-> v5 + 1, server |-> "none"]}
      BY <1>3, Zenon DEF Dhcp!PollStartsOver, Dhcp!Discover, Dhcp!None
    <3> QED
      BY <3>1, <3>2, <3>3 DEF Dhcp!LeaseInv, Dhcp!OneServerEach
  <2>3. Dhcp!AddressGranted'
    BY <1>3
    DEF Dhcp!PollStartsOver, Dhcp!Discovering, Dhcp!Discover, Dhcp!Reply, Dhcp!LeaseInv,
        Dhcp!LeaseTypes, Dhcp!Replies, Dhcp!AddressGranted, Dhcp!None
  <2>4. Dhcp!StatusFollows'
    BY <1>3, Zenon
    DEF Dhcp!PollStartsOver, Dhcp!LeaseInv, Dhcp!StatusFollows
  <2>5. Dhcp!LostOnlyByNakStep
    BY <1>3, Zenon
    DEF Dhcp!PollStartsOver, Dhcp!LostOnlyByNakStep
  <2> QED
    BY <2>1, <2>2, <2>3, <2>4, <2>5, Zenon DEF Dhcp!LeaseInv
<1>4. CASE Dhcp!PollRenews
  <2>1. Dhcp!LeaseTypes'
    <3>1. v1' \in Dhcp!Leases
      BY <1>4, DhcpAssumption
      DEF Dhcp!PollRenews, Dhcp!Requesting, Dhcp!Request, Dhcp!LeaseInv, Dhcp!LeaseTypes,
          Dhcp!Leases, Dhcp!Replies, Dhcp!None
    <3>2. v6' \subseteq Dhcp!Questions(v5')
      BY <1>4
      DEF Dhcp!PollRenews, Dhcp!Requesting, Dhcp!Request, Dhcp!LeaseInv, Dhcp!LeaseTypes,
          Dhcp!Leases, Dhcp!Replies, Dhcp!Questions, Dhcp!OneServerEach, Dhcp!None
    <3>3. v7' \subseteq Dhcp!Replies(v5')
      BY <1>4
      DEF Dhcp!PollRenews, Dhcp!LeaseInv, Dhcp!LeaseTypes, Dhcp!Replies
    <3> QED
      BY <1>4, DhcpAssumption, <3>1, <3>2, <3>3
      DEF Dhcp!PollRenews, Dhcp!LeaseInv, Dhcp!LeaseTypes
  <2>2. Dhcp!OneServerEach'
    <3>1. \A m \in v6 : m.xid # v5 + 1
      BY DEF Dhcp!LeaseInv, Dhcp!LeaseTypes, Dhcp!Questions
    <3>2. v1' = [state |-> "Requesting", xid |-> v5', server |-> v1.server, left |-> RetryTime, tries |-> 1]
      BY <1>4, Zenon DEF Dhcp!PollRenews, Dhcp!Requesting
    <3>3. /\ v6' = v6 \cup {[kind |-> "Request", xid |-> v5 + 1, server |-> v1.server]}
          /\ v5' = v5 + 1 /\ v7' = v7
      BY <1>4, Zenon DEF Dhcp!PollRenews, Dhcp!Request
    <3>4. v1.server \in Servers
      BY <1>4, Zenon DEF Dhcp!PollRenews, Dhcp!LeaseInv, Dhcp!LeaseTypes, Dhcp!Replies, Dhcp!AddressGranted, Dhcp!Reply
    <3> QED
      BY <3>1, <3>2, <3>3, <3>4 DEF Dhcp!LeaseInv, Dhcp!OneServerEach, Dhcp!Request
  <2>3. Dhcp!AddressGranted'
    BY <1>4
    DEF Dhcp!PollRenews, Dhcp!Requesting, Dhcp!Request, Dhcp!Reply, Dhcp!LeaseInv,
        Dhcp!LeaseTypes, Dhcp!Replies, Dhcp!AddressGranted, Dhcp!None
  <2>4. Dhcp!StatusFollows'
    BY <1>4, Zenon
    DEF Dhcp!PollRenews, Dhcp!LeaseInv, Dhcp!StatusFollows
  <2>5. Dhcp!LostOnlyByNakStep
    BY <1>4, Zenon
    DEF Dhcp!PollRenews, Dhcp!LostOnlyByNakStep
  <2> QED
    BY <2>1, <2>2, <2>3, <2>4, <2>5, Zenon DEF Dhcp!LeaseInv
<1> QED
  BY <1>1, <1>2, <1>3, <1>4, Zenon DEF Dhcp!Client

(* Only the answer to the transaction under way counts (receive_dhcp), and *)
(* only a NAK takes the address away.                                      *)
LEMMA DhcpReceive ==
  ASSUME Dhcp!LeaseInv, NEW r \in v7, Dhcp!ReceiveOffer(r) \/ Dhcp!ReceiveAck(r) \/ Dhcp!ReceiveNak(r)
  PROVE  Dhcp!LeaseInv' /\ Dhcp!LostOnlyByNakStep
<1>1. CASE Dhcp!ReceiveOffer(r)
  <2>1. Dhcp!LeaseTypes'
    <3>1. v1' \in Dhcp!Leases
      BY <1>1, DhcpAssumption
      DEF Dhcp!ReceiveOffer, Dhcp!Requesting, Dhcp!Request, Dhcp!Awaited, Dhcp!LeaseInv,
          Dhcp!LeaseTypes, Dhcp!Leases, Dhcp!Replies, Dhcp!None
    <3>2. v6' \subseteq Dhcp!Questions(v5')
      BY <1>1
      DEF Dhcp!ReceiveOffer, Dhcp!Requesting, Dhcp!Request, Dhcp!Awaited, Dhcp!LeaseInv,
          Dhcp!LeaseTypes, Dhcp!Leases, Dhcp!Replies, Dhcp!Questions, Dhcp!OneServerEach,
          Dhcp!None
    <3>3. v7' \subseteq Dhcp!Replies(v5')
      BY <1>1, Zenon
      DEF Dhcp!ReceiveOffer, Dhcp!LeaseInv, Dhcp!LeaseTypes, Dhcp!Replies
    <3> QED
      BY <1>1, <3>1, <3>2, <3>3, Zenon
      DEF Dhcp!ReceiveOffer, Dhcp!LeaseInv, Dhcp!LeaseTypes
  <2>2. Dhcp!OneServerEach'
    BY <1>1
    DEF Dhcp!ReceiveOffer, Dhcp!Requesting, Dhcp!Request, Dhcp!Awaited, Dhcp!LeaseInv,
        Dhcp!LeaseTypes, Dhcp!Leases, Dhcp!Questions, Dhcp!Replies, Dhcp!OneServerEach, Dhcp!None
  <2>3. Dhcp!AddressGranted'
    BY <1>1, Zenon
    DEF Dhcp!ReceiveOffer, Dhcp!Requesting, Dhcp!Request, Dhcp!Awaited, Dhcp!Reply, Dhcp!LeaseInv,
        Dhcp!LeaseTypes, Dhcp!Leases, Dhcp!Questions, Dhcp!Replies, Dhcp!OneServerEach,
        Dhcp!AddressGranted, Dhcp!None
  <2>4. Dhcp!StatusFollows'
    BY <1>1, Zenon
    DEF Dhcp!ReceiveOffer, Dhcp!LeaseInv, Dhcp!StatusFollows
  <2>5. Dhcp!LostOnlyByNakStep
    BY <1>1, Zenon
    DEF Dhcp!ReceiveOffer, Dhcp!LostOnlyByNakStep
  <2> QED
    BY <2>1, <2>2, <2>3, <2>4, <2>5, Zenon DEF Dhcp!LeaseInv
<1>2. CASE Dhcp!ReceiveAck(r)
  <2>1. Dhcp!LeaseTypes'
    <3>1. v1' \in Dhcp!Leases
      BY <1>2, DhcpAssumption
      DEF Dhcp!ReceiveAck, Dhcp!Bound, Dhcp!Awaited, Dhcp!LeaseInv, Dhcp!LeaseTypes, Dhcp!Leases,
          Dhcp!Replies, Dhcp!None
    <3> QED
      BY <1>2, <3>1
      DEF Dhcp!ReceiveAck, Dhcp!Told, Dhcp!LeaseInv, Dhcp!LeaseTypes, Dhcp!Replies
  <2>2. Dhcp!OneServerEach'
    BY <1>2, Zenon
    DEF Dhcp!ReceiveAck, Dhcp!Bound, Dhcp!Awaited, Dhcp!Request, Dhcp!LeaseInv, Dhcp!LeaseTypes,
        Dhcp!Leases, Dhcp!Questions, Dhcp!Replies, Dhcp!OneServerEach, Dhcp!None
  <2>3. Dhcp!AddressGranted'
    BY <1>2
    DEF Dhcp!ReceiveAck, Dhcp!Bound, Dhcp!Awaited, Dhcp!Reply, Dhcp!LeaseInv, Dhcp!LeaseTypes,
        Dhcp!Leases, Dhcp!Questions, Dhcp!Replies, Dhcp!OneServerEach, Dhcp!AddressGranted,
        Dhcp!None
  <2>4. Dhcp!StatusFollows'
    <3>1. CASE v2 = r.server
      BY <1>2, <3>1, Zenon DEF Dhcp!ReceiveAck, Dhcp!Told, Dhcp!LeaseInv, Dhcp!StatusFollows
    <3>2. CASE v2 # r.server
      <4>1. v3' = Append(v3, r.server) /\ v2' = r.server
        BY <1>2, <3>2, Zenon DEF Dhcp!ReceiveAck, Dhcp!Told
      <4> QED
        BY <4>1 DEF Dhcp!LeaseInv, Dhcp!LeaseTypes, Dhcp!StatusFollows
    <3> QED
      BY <3>1, <3>2, Zenon
  <2>5. Dhcp!LostOnlyByNakStep
    BY <1>2, DhcpAssumption, Zenon
    DEF Dhcp!ReceiveAck, Dhcp!LeaseInv, Dhcp!LeaseTypes, Dhcp!Replies, Dhcp!None,
        Dhcp!LostOnlyByNakStep
  <2> QED
    BY <2>1, <2>2, <2>3, <2>4, <2>5, Zenon DEF Dhcp!LeaseInv
<1>3. CASE Dhcp!ReceiveNak(r)
  <2>1. Dhcp!LeaseTypes'
    <3>1. v1' \in Dhcp!Leases
      BY <1>3, DhcpAssumption
      DEF Dhcp!ReceiveNak, Dhcp!Discovering, Dhcp!Awaited, Dhcp!LeaseInv, Dhcp!LeaseTypes,
          Dhcp!Leases, Dhcp!Replies, Dhcp!None
    <3>2. v6' \subseteq Dhcp!Questions(v5')
      BY <1>3
      DEF Dhcp!ReceiveNak, Dhcp!Discovering, Dhcp!Awaited, Dhcp!LeaseInv, Dhcp!LeaseTypes,
          Dhcp!Leases, Dhcp!Replies, Dhcp!Questions, Dhcp!OneServerEach, Dhcp!None
    <3>3. v7' \subseteq Dhcp!Replies(v5')
      BY <1>3
      DEF Dhcp!ReceiveNak, Dhcp!LeaseInv, Dhcp!LeaseTypes, Dhcp!Replies
    <3> QED
      BY <1>3, DhcpAssumption, <3>1, <3>2, <3>3
      DEF Dhcp!ReceiveNak, Dhcp!Told, Dhcp!LeaseInv, Dhcp!LeaseTypes
  <2>2. Dhcp!OneServerEach'
    BY <1>3
    DEF Dhcp!ReceiveNak, Dhcp!Discovering, Dhcp!Awaited, Dhcp!Request, Dhcp!LeaseInv,
        Dhcp!LeaseTypes, Dhcp!Leases, Dhcp!Questions, Dhcp!Replies, Dhcp!OneServerEach, Dhcp!None
  <2>3. Dhcp!AddressGranted'
    BY <1>3, Zenon
    DEF Dhcp!ReceiveNak, Dhcp!Discovering, Dhcp!Awaited, Dhcp!Reply, Dhcp!LeaseInv,
        Dhcp!LeaseTypes, Dhcp!Leases, Dhcp!Questions, Dhcp!Replies, Dhcp!OneServerEach,
        Dhcp!AddressGranted, Dhcp!None
  <2>4. Dhcp!StatusFollows'
    <3>1. CASE v2 = Dhcp!None
      BY <1>3, <3>1, Zenon DEF Dhcp!ReceiveNak, Dhcp!Told, Dhcp!LeaseInv, Dhcp!StatusFollows
    <3>2. CASE v2 # Dhcp!None
      <4>1. v3' = Append(v3, Dhcp!None) /\ v2' = Dhcp!None
        BY <1>3, <3>2, Zenon DEF Dhcp!ReceiveNak, Dhcp!Told
      <4> QED
        BY <4>1 DEF Dhcp!LeaseInv, Dhcp!LeaseTypes, Dhcp!StatusFollows
    <3> QED
      BY <3>1, <3>2, Zenon
  <2>5. Dhcp!LostOnlyByNakStep
    BY <1>3, Zenon
    DEF Dhcp!ReceiveNak, Dhcp!Awaited, Dhcp!LeaseInv, Dhcp!LeaseTypes, Dhcp!Leases,
        Dhcp!Questions, Dhcp!Replies, Dhcp!OneServerEach, Dhcp!LostOnlyByNakStep, Dhcp!Request,
        Dhcp!Reply
  <2> QED
    BY <2>1, <2>2, <2>3, <2>4, <2>5, Zenon DEF Dhcp!LeaseInv
<1> QED
  BY <1>1, <1>2, <1>3, Zenon

(* A server grants or refuses only what was asked of it.                   *)
LEMMA DhcpServe ==
  ASSUME Dhcp!LeaseInv, NEW s \in Servers, NEW m \in v6,
         Dhcp!ServerOffers(s, m) \/ Dhcp!ServerGrants(s, m) \/ Dhcp!ServerRefuses(s, m)
  PROVE  Dhcp!LeaseInv' /\ Dhcp!LostOnlyByNakStep
<1>1. CASE Dhcp!ServerOffers(s, m)
  <2>1. Dhcp!LeaseTypes'
    <3>1. v7' \subseteq Dhcp!Replies(v5')
      BY <1>1
      DEF Dhcp!ServerOffers, Dhcp!Reply, Dhcp!LeaseInv, Dhcp!LeaseTypes, Dhcp!Replies,
          Dhcp!Questions
    <3> QED
      BY <1>1, <3>1, Zenon
      DEF Dhcp!ServerOffers, Dhcp!LeaseInv, Dhcp!LeaseTypes
  <2>2. Dhcp!OneServerEach'
    BY <1>1
    DEF Dhcp!ServerOffers, Dhcp!Reply, Dhcp!Request, Dhcp!LeaseInv, Dhcp!LeaseTypes, Dhcp!Leases,
        Dhcp!Questions, Dhcp!Replies, Dhcp!OneServerEach, Dhcp!None
  <2>3. Dhcp!AddressGranted'
    BY <1>1, Zenon
    DEF Dhcp!ServerOffers, Dhcp!Reply, Dhcp!LeaseInv, Dhcp!LeaseTypes, Dhcp!Replies,
        Dhcp!AddressGranted, Dhcp!None
  <2>4. Dhcp!StatusFollows'
    BY <1>1, Zenon
    DEF Dhcp!ServerOffers, Dhcp!LeaseInv, Dhcp!StatusFollows
  <2>5. Dhcp!LostOnlyByNakStep
    BY <1>1, Zenon
    DEF Dhcp!ServerOffers, Dhcp!LostOnlyByNakStep
  <2> QED
    BY <2>1, <2>2, <2>3, <2>4, <2>5, Zenon DEF Dhcp!LeaseInv
<1>2. CASE Dhcp!ServerGrants(s, m)
  <2>1. Dhcp!LeaseTypes'
    <3>1. v7' \subseteq Dhcp!Replies(v5')
      BY <1>2
      DEF Dhcp!ServerGrants, Dhcp!Reply, Dhcp!LeaseInv, Dhcp!LeaseTypes, Dhcp!Replies,
          Dhcp!Questions
    <3> QED
      BY <1>2, <3>1, Zenon
      DEF Dhcp!ServerGrants, Dhcp!LeaseInv, Dhcp!LeaseTypes
  <2>2. Dhcp!OneServerEach'
    BY <1>2
    DEF Dhcp!ServerGrants, Dhcp!Reply, Dhcp!Request, Dhcp!LeaseInv, Dhcp!LeaseTypes, Dhcp!Leases,
        Dhcp!Questions, Dhcp!Replies, Dhcp!OneServerEach, Dhcp!None
  <2>3. Dhcp!AddressGranted'
    BY <1>2, Zenon
    DEF Dhcp!ServerGrants, Dhcp!Reply, Dhcp!LeaseInv, Dhcp!LeaseTypes, Dhcp!Replies,
        Dhcp!AddressGranted, Dhcp!None
  <2>4. Dhcp!StatusFollows'
    BY <1>2, Zenon
    DEF Dhcp!ServerGrants, Dhcp!LeaseInv, Dhcp!StatusFollows
  <2>5. Dhcp!LostOnlyByNakStep
    BY <1>2, Zenon
    DEF Dhcp!ServerGrants, Dhcp!LostOnlyByNakStep
  <2> QED
    BY <2>1, <2>2, <2>3, <2>4, <2>5, Zenon DEF Dhcp!LeaseInv
<1>3. CASE Dhcp!ServerRefuses(s, m)
  <2>1. Dhcp!LeaseTypes'
    <3>1. v7' \subseteq Dhcp!Replies(v5')
      BY <1>3
      DEF Dhcp!ServerRefuses, Dhcp!Reply, Dhcp!LeaseInv, Dhcp!LeaseTypes, Dhcp!Replies,
          Dhcp!Questions
    <3> QED
      BY <1>3, <3>1, Zenon
      DEF Dhcp!ServerRefuses, Dhcp!LeaseInv, Dhcp!LeaseTypes
  <2>2. Dhcp!OneServerEach'
    BY <1>3
    DEF Dhcp!ServerRefuses, Dhcp!Reply, Dhcp!Request, Dhcp!LeaseInv, Dhcp!LeaseTypes, Dhcp!Leases,
        Dhcp!Questions, Dhcp!Replies, Dhcp!OneServerEach, Dhcp!None
  <2>3. Dhcp!AddressGranted'
    BY <1>3, Zenon
    DEF Dhcp!ServerRefuses, Dhcp!Reply, Dhcp!LeaseInv, Dhcp!LeaseTypes, Dhcp!Replies,
        Dhcp!AddressGranted, Dhcp!None
  <2>4. Dhcp!StatusFollows'
    BY <1>3, Zenon
    DEF Dhcp!ServerRefuses, Dhcp!LeaseInv, Dhcp!StatusFollows
  <2>5. Dhcp!LostOnlyByNakStep
    BY <1>3, Zenon
    DEF Dhcp!ServerRefuses, Dhcp!LostOnlyByNakStep
  <2> QED
    BY <2>1, <2>2, <2>3, <2>4, <2>5, Zenon DEF Dhcp!LeaseInv
<1> QED
  BY <1>1, <1>2, <1>3, Zenon

(* Taking the events, the passing of time, and no step at all.             *)
LEMMA DhcpOther ==
  ASSUME Dhcp!LeaseInv, Dhcp!TakeEvents \/ Dhcp!Tick \/ UNCHANGED Dhcp!vars
  PROVE  Dhcp!LeaseInv' /\ Dhcp!LostOnlyByNakStep
<1>1. CASE Dhcp!TakeEvents
  <2>1. Dhcp!LeaseTypes'
    <3> QED
      BY <1>1
      DEF Dhcp!TakeEvents, Dhcp!LeaseInv, Dhcp!LeaseTypes
  <2>2. Dhcp!OneServerEach'
    BY <1>1, Zenon
    DEF Dhcp!TakeEvents, Dhcp!Request, Dhcp!LeaseInv, Dhcp!LeaseTypes, Dhcp!Leases,
        Dhcp!Questions, Dhcp!Replies, Dhcp!OneServerEach, Dhcp!None
  <2>3. Dhcp!AddressGranted'
    BY <1>1, Zenon
    DEF Dhcp!TakeEvents, Dhcp!Reply, Dhcp!LeaseInv, Dhcp!LeaseTypes, Dhcp!Leases, Dhcp!Questions,
        Dhcp!Replies, Dhcp!OneServerEach, Dhcp!AddressGranted, Dhcp!None
  <2>4. Dhcp!StatusFollows'
    BY <1>1, Zenon
    DEF Dhcp!TakeEvents, Dhcp!LeaseInv, Dhcp!StatusFollows
  <2>5. Dhcp!LostOnlyByNakStep
    BY <1>1, Zenon
    DEF Dhcp!TakeEvents, Dhcp!LostOnlyByNakStep
  <2> QED
    BY <2>1, <2>2, <2>3, <2>4, <2>5, Zenon DEF Dhcp!LeaseInv
<1>2. CASE Dhcp!Tick
  <2>1. Dhcp!LeaseTypes'
    <3>1. v1' \in Dhcp!Leases
      BY <1>2, DhcpAssumption
      DEF Dhcp!Tick, Dhcp!LeaseInv, Dhcp!LeaseTypes, Dhcp!Leases, Dhcp!Replies, Dhcp!None
    <3> QED
      BY <1>2, <3>1, Zenon
      DEF Dhcp!Tick, Dhcp!LeaseInv, Dhcp!LeaseTypes
  <2>2. Dhcp!OneServerEach'
    <3>1. v1'.state = v1.state /\ v1'.xid = v1.xid /\ v1'.server = v1.server
      BY <1>2, Zenon DEF Dhcp!Tick, Dhcp!LeaseInv, Dhcp!LeaseTypes, Dhcp!Leases
    <3> QED
      BY <1>2, <3>1, Zenon DEF Dhcp!Tick, Dhcp!LeaseInv, Dhcp!OneServerEach
  <2>3. Dhcp!AddressGranted'
    <3>1. v1'.state = v1.state /\ v1'.xid = v1.xid /\ v1'.server = v1.server
      BY <1>2, Zenon DEF Dhcp!Tick, Dhcp!LeaseInv, Dhcp!LeaseTypes, Dhcp!Leases
    <3> QED
      BY <1>2, <3>1, Zenon DEF Dhcp!Tick, Dhcp!LeaseInv, Dhcp!AddressGranted
  <2>4. Dhcp!StatusFollows'
    BY <1>2, Zenon
    DEF Dhcp!Tick, Dhcp!LeaseInv, Dhcp!StatusFollows
  <2>5. Dhcp!LostOnlyByNakStep
    BY <1>2, Zenon
    DEF Dhcp!Tick, Dhcp!LostOnlyByNakStep
  <2> QED
    BY <2>1, <2>2, <2>3, <2>4, <2>5, Zenon DEF Dhcp!LeaseInv
<1>3. CASE UNCHANGED Dhcp!vars
  BY <1>3, Zenon DEF Dhcp!vars, Dhcp!LeaseInv, Dhcp!LeaseTypes, Dhcp!OneServerEach, Dhcp!AddressGranted,
      Dhcp!StatusFollows, Dhcp!LostOnlyByNakStep
<1> QED
  BY <1>1, <1>2, <1>3, Zenon

(* Every step of the component keeps the lease's invariant.                *)
LEMMA DhcpNext ==
  ASSUME Dhcp!LeaseInv, [Dhcp!Next]_(Dhcp!vars)
  PROVE  Dhcp!LeaseInv' /\ Dhcp!LostOnlyByNakStep
  BY DhcpPoll, DhcpReceive, DhcpServe, DhcpOther, Zenon DEF Dhcp!Next, Dhcp!Receive, Dhcp!Serve

(* The interface has the address that its server granted in the latest     *)
(* transaction, the network task believes what the interface says, and     *)
(* only a NAK takes an address away: for any number of servers and         *)
(* transactions, whatever is late, repeated or lost (interface.rs).        *)
THEOREM AddressIsGrantedAlways == Dhcp!Spec => AddressIsGranted
<1> DEFINE Granted == Dhcp!TypeOK /\ Dhcp!AddressGranted /\ Dhcp!StatusFollows
<1>1. Dhcp!Init => Dhcp!LeaseInv
  BY DhcpInit, Zenon
<1>2. Dhcp!LeaseInv /\ [Dhcp!Next]_(Dhcp!vars) => Dhcp!LeaseInv' /\ Dhcp!LostOnlyByNakStep
  BY DhcpNext, Zenon
<1>3. Dhcp!LeaseInv => Granted
  BY Zenon DEF Dhcp!LeaseInv, Dhcp!LeaseTypes, Dhcp!Leases, Dhcp!TypeOK
<1>4. Granted' /\ Dhcp!LostOnlyByNakStep
        => (part = "dhcp" => /\ Dhcp!TypeOK'
                             /\ Dhcp!AddressGranted'
                             /\ Dhcp!StatusFollows'
                             /\ Dhcp!LostOnlyByNakStep)
  BY Zenon
<1> QED
  BY <1>1, <1>2, <1>3, <1>4, PTL DEF Dhcp!Spec, AddressIsGranted
-----------------------------------------------------------------------------
(* The time (ClockSync).                                                   *)

(* The clock is not set at first, and nothing is on its way.               *)
LEMMA ClockInit == Clock!Init => Clock!SyncInv
<1> SUFFICES ASSUME Clock!Init PROVE Clock!SyncInv
  BY Zenon
<1>1. v1 \in Clock!Syncs
  BY ClockAssumption DEF Clock!Init, Clock!Syncs, Clock!State, Clock!TimeServers
<1>2. v2 = {} /\ v4 \in 0..MaxLate /\ v3 = Clock!Unset
  BY ClockAssumption DEF Clock!Init
<1>3. Clock!NoOlder /\ Clock!SetClose
  BY <1>2, Zenon DEF Clock!NoOlder, Clock!SetClose
<1> QED
  BY <1>1, <1>2, <1>3, Zenon DEF Clock!Init, Clock!SyncInv

(* ask: nothing else with its cookie is on its way.                        *)
LEMMA ClockAsk ==
  ASSUME Clock!SyncInv, NEW server \in Clock!TimeServers, NEW tries \in 0..SntpTries, NEW spent \in 0..v4,
         Clock!Ask(server, tries, spent), v3' = v3, v4' = v4, v5' \in BOOLEAN
  PROVE  Clock!SyncInv'
<1>1. Clock!Cookie \in {0, 1}
  BY DEF Clock!SyncInv, Clock!Syncs, Clock!Cookie
<1>2. v1' \in Clock!Syncs
  <2>1. SntpRetry + v4 - spent \in Nat /\ spent \in 0..MaxAge
    BY ClockAssumption DEF Clock!SyncInv
  <2> QED
    BY <1>1, <2>1, Zenon DEF Clock!Ask, Clock!State, Clock!Syncs
<1>3. v2' \subseteq Clock!Datagrams
  BY <1>1, ClockAssumption DEF Clock!Ask, Clock!SyncInv, Clock!Datagrams
<1>4. Clock!NoOlder'
  BY DEF Clock!Ask, Clock!State, Clock!NoOlder
<1> QED
  BY <1>2, <1>3, <1>4, Zenon DEF Clock!SyncInv, Clock!SetClose

(* Waiting again, for whatever time.                                       *)
LEMMA ClockWait ==
  ASSUME Clock!SyncInv, NEW left \in Nat, NEW pc \in {"waiting", "resolving"},
         v1' = Clock!State(pc, "none", v1.cookie, left, 0, 0), v2' = v2, Clock!SetClose', v4' = v4,
         v5' \in BOOLEAN
  PROVE  Clock!SyncInv'
<1>1. v1' \in Clock!Syncs
  BY ClockAssumption DEF Clock!SyncInv, Clock!State, Clock!Syncs, Clock!TimeServers
<1>2. Clock!NoOlder'
  BY Zenon DEF Clock!State, Clock!NoOlder
<1> QED
  BY <1>1, <1>2, Zenon DEF Clock!SyncInv

(* poll asks, asks again, gives up or leaves things as they are.           *)
LEMMA ClockPoll ==
  ASSUME Clock!SyncInv, Clock!Poll
  PROVE  Clock!SyncInv'
<1>1. v3' = v3 /\ v4' = v4 /\ v5' \in BOOLEAN /\ v4 \in 0..v4 /\ Clock!SetClose'
  BY DEF Clock!Poll, Clock!SyncInv, Clock!SetClose
<1>2. PICK spent : spent = v4
  BY Zenon
<1>3. CASE UNCHANGED <<v1, v2>>
  BY <1>1, <1>3, Zenon DEF Clock!SyncInv, Clock!NoOlder
<1>4. CASE v1' = [Clock!Waiting(0) EXCEPT !.pc = "resolving"] /\ v2' = v2
  <2>1. v1' = Clock!State("resolving", "none", v1.cookie, 0, 0, 0)
    BY <1>4, Zenon DEF Clock!Waiting, Clock!State
  <2> QED
    BY <1>1, <1>4, <2>1, ClockWait, Zenon
<1>5. CASE Clock!Ask("fallback", 1, v4)
  BY <1>1, <1>2, <1>5, ClockAsk, ClockAssumption DEF Clock!TimeServers
<1>6. CASE v1' = Clock!Waiting(Retry) /\ v2' = v2
  BY <1>1, <1>6, ClockWait, ClockAssumption, Zenon DEF Clock!Waiting
<1>7. CASE Clock!Ask(v1.server, v1.tries + 1, v4) /\ ~(v1.tries >= SntpTries)
  <2>1. PICK server, tries : server = v1.server /\ tries = v1.tries + 1
    BY Zenon
  <2>2. server \in Clock!TimeServers /\ tries \in 0..SntpTries
    BY <2>1, <1>7, ClockAssumption DEF Clock!SyncInv, Clock!Syncs
  <2> QED
    BY <1>1, <1>2, <1>7, <2>1, <2>2, ClockAsk, Zenon
<1> QED
  BY <1>3, <1>4, <1>5, <1>6, <1>7, Zenon DEF Clock!Poll

(* A lookup that ends is asked for the time of, or waited after.           *)
LEMMA ClockResolved ==
  ASSUME Clock!SyncInv, NEW found \in BOOLEAN, NEW spent \in 0..v4, Clock!Resolved(found, spent)
  PROVE  Clock!SyncInv'
<1>1. v3' = v3 /\ v4' = v4 /\ v5' \in BOOLEAN /\ Clock!SetClose'
  BY Zenon DEF Clock!Resolved, Clock!SyncInv, Clock!SetClose
<1>2. CASE found
  BY <1>1, <1>2, ClockAsk, ClockAssumption DEF Clock!Resolved, Clock!TimeServers
<1>3. CASE ~found
  <2>1. PICK left : left = Retry + v4 - spent
    BY Zenon
  <2>2. left \in Nat
    BY <2>1, ClockAssumption DEF Clock!SyncInv
  <2> QED
    BY <1>1, <1>3, <2>1, <2>2, ClockWait, Zenon DEF Clock!Resolved, Clock!Waiting
<1> QED
  BY <1>2, <1>3, Zenon

(* An answer that counts is of the request made last, so it was sent after *)
(* it: half the round trip is as far off as it can be.                     *)
LEMMA ClockReceive ==
  ASSUME Clock!SyncInv, NEW d \in v2, Clock!Receive(d)
  PROVE  Clock!SyncInv'
<1>1. /\ v1.age \in 0..MaxAge /\ d.age \in 0..v1.age
  BY DEF Clock!Receive, Clock!Expected, Clock!SyncInv, Clock!Syncs, Clock!NoOlder, Clock!Datagrams
<1>2. 2 * ((v1.age \div 2) - d.age) \in (-(v1.age + 1))..(v1.age + 1)
  BY <1>1, ClockAssumption
<1>3. Clock!SetClose'
  BY <1>2, Zenon DEF Clock!Receive, Clock!Parse, Clock!SetClose
<1>4. PICK left : left = Resync + v4
  BY Zenon
<1>5. left \in Nat
  BY <1>4, ClockAssumption DEF Clock!SyncInv
<1> QED
  BY <1>3, <1>4, <1>5, ClockWait, Zenon DEF Clock!Receive, Clock!Waiting, Clock!SyncInv

(* The next round counts the timer down.                                   *)
LEMMA ClockRound ==
  ASSUME Clock!SyncInv, Clock!NextRound
  PROVE  Clock!SyncInv'
<1>1. (IF v1.left > v4 THEN v1.left - v4 ELSE 0) \in Nat
  BY ClockAssumption DEF Clock!SyncInv, Clock!Syncs
<1>2. v1' \in Clock!Syncs
  BY <1>1, Zenon DEF Clock!NextRound, Clock!SyncInv, Clock!Syncs
<1>3. v1'.pc = v1.pc /\ v1'.cookie = v1.cookie /\ v1'.age = v1.age
  BY Zenon DEF Clock!NextRound, Clock!SyncInv, Clock!Syncs
<1>4. Clock!NoOlder'
  BY <1>3, Zenon DEF Clock!NextRound, Clock!SyncInv, Clock!NoOlder
<1> QED
  <2>1. v2' = v2 /\ v3' = v3 /\ v4' = 0 /\ v5' = FALSE
    BY Zenon DEF Clock!NextRound
  <2>2. v2' \subseteq Clock!Datagrams /\ v4' \in 0..MaxLate
    BY <2>1, ClockAssumption DEF Clock!SyncInv
  <2>3. Clock!SetClose
    BY Zenon DEF Clock!SyncInv
  <2>4. Clock!SetClose'
    BY <2>1, <2>3, Zenon DEF Clock!SetClose
  <2> QED
    BY <1>2, <1>4, <2>1, <2>2, <2>4, Zenon DEF Clock!SyncInv

(* Time passes for the round and for what is on its way alike.             *)
LEMMA ClockTick ==
  ASSUME Clock!SyncInv, Clock!Tick
  PROVE  Clock!SyncInv'
<1>1. v1.age + 1 \in 0..MaxAge /\ v1 \in Clock!Syncs
  BY ClockAssumption DEF Clock!Tick, Clock!SyncInv, Clock!Syncs
<1>2. v1' \in Clock!Syncs
  BY <1>1, Zenon DEF Clock!Tick, Clock!Syncs
<1>3. /\ v1'.pc = v1.pc /\ v1'.cookie = v1.cookie
      /\ v1.pc = "asking" => v1'.age = v1.age + 1
  BY <1>1, Zenon DEF Clock!Tick, Clock!Syncs
<1>4. ASSUME NEW d \in v2'
      PROVE  /\ d \in Clock!Datagrams
             /\ \E e \in v2 : d.age = e.age + 1 /\ d.cookie = e.cookie
  <2>1. PICK e \in v2 : e.age < MaxAge /\ d = [e EXCEPT !.age = @ + 1]
    BY Zenon DEF Clock!Tick
  <2>2. e \in Clock!Datagrams /\ e.age + 1 \in 0..MaxAge
    BY <2>1, ClockAssumption DEF Clock!SyncInv, Clock!Datagrams
  <2> QED
    BY <2>1, <2>2, Zenon DEF Clock!Datagrams
<1>5. \A e \in v2 : e.age \in 0..MaxAge
  BY Zenon DEF Clock!SyncInv, Clock!Datagrams
<1>6. Clock!NoOlder'
  BY <1>1, <1>3, <1>4, <1>5 DEF Clock!SyncInv, Clock!NoOlder, Clock!Syncs
<1> QED
  BY <1>2, <1>4, <1>6, ClockAssumption DEF Clock!Tick, Clock!SyncInv, Clock!SetClose

(* An answer is stamped when it is sent, and keeps the request's cookie.   *)
LEMMA ClockServe ==
  ASSUME Clock!SyncInv, NEW d \in v2, Clock!Serve(d) \/ Clock!Lose(d)
  PROVE  Clock!SyncInv'
<1>1. CASE Clock!Serve(d)
  <2>1. PICK e : e = [kind |-> "answer", server |-> d.server, cookie |-> d.cookie, age |-> 0]
    BY Zenon
  <2>2. d \in Clock!Datagrams
    BY Zenon DEF Clock!SyncInv
  <2>3. e \in Clock!Datagrams /\ e.age = 0
    BY <2>1, <2>2, ClockAssumption DEF Clock!Datagrams
  <2>4. v2' \subseteq v2 \cup {e}
    BY <1>1, <2>1, Zenon DEF Clock!Serve
  <2>5. v1.age \in Nat
    BY ClockAssumption DEF Clock!SyncInv, Clock!Syncs
  <2>6. Clock!NoOlder'
    BY <1>1, <2>3, <2>4, <2>5 DEF Clock!Serve, Clock!SyncInv, Clock!NoOlder
  <2> QED
    BY <1>1, <2>3, <2>4, <2>6, Zenon DEF Clock!Serve, Clock!SyncInv, Clock!SetClose
<1>2. CASE Clock!Lose(d)
  BY <1>2, Zenon DEF Clock!Lose, Clock!SyncInv, Clock!NoOlder, Clock!SetClose
<1> QED
  BY <1>1, <1>2, Zenon

(* Every step of the component keeps its invariant.                        *)
LEMMA ClockNext ==
  ASSUME Clock!SyncInv, [Clock!Next]_(Clock!vars)
  PROVE  Clock!SyncInv'
<1>1. ASSUME NEW found \in BOOLEAN, Clock!Resolved(found, v4) \/ Clock!Resolved(found, 0)
      PROVE  Clock!SyncInv'
  <2>1. PICK spent : spent = v4
    BY Zenon
  <2>2. v4 \in 0..v4 /\ 0 \in 0..v4
    BY ClockAssumption DEF Clock!SyncInv
  <2> QED
    BY <1>1, <2>1, <2>2, ClockResolved, Zenon
<1>2. CASE UNCHANGED Clock!vars
  BY <1>2, Zenon DEF Clock!vars, Clock!SyncInv, Clock!NoOlder, Clock!SetClose
<1> QED
  BY <1>1, <1>2, ClockPoll, ClockRound, ClockTick, ClockReceive, ClockServe, Zenon DEF Clock!Next

(* The clock is wrong by half the round trip at most when it is set,       *)
(* however often requests are made again and however late or lost the      *)
(* answers are (lookup.rs, sntp.rs).                                       *)
THEOREM ClockSetCloseAlways == Clock!Spec => []ClockSetClose
<1>1. Clock!Init => Clock!SyncInv
  BY ClockInit, Zenon
<1>2. Clock!SyncInv /\ [Clock!Next]_(Clock!vars) => Clock!SyncInv'
  BY ClockNext, Zenon
<1>3. Clock!SyncInv => Clock!TypeOK /\ Clock!SetClose
  BY DEF Clock!SyncInv, Clock!Syncs, Clock!Datagrams, Clock!TypeOK
<1>4. Clock!SyncInv => ClockSetClose
  BY <1>3, Zenon DEF ClockSetClose
<1> QED
  BY <1>1, <1>2, <1>4, PTL DEF Clock!Spec
-----------------------------------------------------------------------------
(* A new kernel (Update).                                                  *)

(* A sequence that gets longer by one.                                     *)
LEMMA KernelAdded ==
  ASSUME NEW set, NEW s \in Seq(set), NEW e \in set
  PROVE  /\ Append(s, e) \in Seq(set) /\ Len(Append(s, e)) = Len(s) + 1
         /\ Append(s, e) # <<>> /\ Append(s, e)[Len(Append(s, e))] = e
OBVIOUS

(* Nothing has begun, and nothing is on its way.                           *)
LEMMA UpdateInit == Update!Init => Update!UpdateInv
<1> SUFFICES ASSUME Update!Init PROVE Update!UpdateInv
  BY Zenon
<1>1. v2.size = 0 /\ v2.arrived = {} /\ v2 = Update!None
  BY Zenon DEF Update!Init, Update!None, Update!Transfer
<1>2. ~ Update!Began
  BY Zenon DEF Update!Init, Update!Began
<1>3. Len(v4) = 0 /\ v4 \in Seq({image \in Update!Images : IsKernel(image)}) /\ v5 = 0 /\ v1 = 0 /\ v3 = FALSE
  BY DEF Update!Init
<1>4. Update!ReceiverInv
  <2>1. v3 \in BOOLEAN
    BY <1>3, Zenon
  <2> QED
    BY <1>1, <1>2, <1>3, <2>1, UpdateAssumption DEF Update!ReceiverInv
<1>5. v7 \in [pc : {"arm", "begin", "data", "end", "installed", "failed"}, at : Nat, tries : 0..Retries] /\ v7.pc = "arm"
  BY UpdateAssumption DEF Update!Init, Update!Start
<1>6. v6 \in DOMAIN Image
  BY UpdateAssumption DEF Update!Init
<1>7. Update!SenderInv
  BY <1>5, <1>6, Zenon DEF Update!SenderInv
<1>8. Update!NetworkInv
  BY Zenon DEF Update!Init, Update!NetworkInv
<1> QED
  BY <1>4, <1>7, <1>8, Zenon DEF Update!UpdateInv

(* handle: whatever comes out of it is of the run that announced it, which *)
(* is this one unless it was overtaken, and only an end finishes a         *)
(* transfer.                                                               *)
HandleSound(d, res) ==
  /\ res.next.size \in Nat /\ res.next.arrived \subseteq 1..res.next.size
  /\ res.next # Update!None => res.next.crc \in Update!Images \ {<<>>}
  /\ res.next # Update!None /\ d.kind = "B" /\ d.from = v6 => res.next.crc = Update!Mine
  /\ res.next # Update!None /\ d.kind # "B" /\ Update!Began /\ ~v10 => res.next.crc = Update!Mine
  /\ res.image # <<>> => res.image \in Update!Images /\ (Update!Began /\ ~v10 => res.image = Update!Mine)
  /\ res.reply = <<"K">> => d.kind = "B"
  /\ res.reply = <<"F">> => d.kind \notin {"B", "D"} /\ res.image # <<>>

(* handle gives such a result.                                             *)
LEMMA UpdateHandle ==
  ASSUME Update!UpdateInv, NEW d \in v8
  PROVE  HandleSound(d, Update!Handle(d))
<1>1. PICK res : res = Update!Handle(d)
  BY Zenon
<1> SUFFICES HandleSound(d, res)
  BY <1>1, Zenon
<1>2. Update!None.size = 0 /\ Update!None.arrived = {}
  BY Zenon DEF Update!None, Update!Transfer
<1>3. /\ v2.size \in Nat /\ v2.arrived \subseteq 1..v2.size /\ (v2 # Update!None => v2.crc \in Update!Images \ {<<>>})
      /\ (Update!Began /\ ~v10 /\ v2 # Update!None => v2.crc = Update!Mine)
  BY Zenon DEF Update!UpdateInv, Update!ReceiverInv
<1>4. <<"X">> # <<"K">> /\ <<"X">> # <<"F">> /\ <<"K">> # <<"F">> /\ \A n : <<"A", n>> # <<"K">> /\ <<"A", n>> # <<"F">>
  BY Zenon
<1>5. CASE res.next = Update!None /\ res.reply = <<"X">> /\ res.image = <<>>
  BY <1>2, <1>4, <1>5 DEF HandleSound
<1>6. CASE res.next = v2 /\ res.reply = <<"X">> /\ res.image = <<>> /\ d.kind # "B"
  BY <1>3, <1>4, <1>6, Zenon DEF HandleSound
<1>7. CASE d.kind = "B" /\ res = Update!Begin(d)
  <2>1. PICK image : image = Image[d.from]
    BY Zenon
  <2>4. /\ d.crc = image /\ d.size = Len(image) /\ image \in Update!Images /\ image \in Seq(Nat)
        /\ d.from = v6 => image = Update!Mine
    <3>1. d.from \in DOMAIN Image
      BY UpdateAssumption DEF Update!UpdateInv, Update!NetworkInv, Update!SenderInv
    <3>2. d.crc = image /\ d.size = Len(image)
      BY <1>7, <2>1, Zenon DEF Update!UpdateInv, Update!NetworkInv
    <3> QED
      BY <2>1, <3>1, <3>2, UpdateAssumption DEF Update!Mine, Update!Images
  <2>2. CASE d.size = 0 \/ d.size > MaxImage
    <3>1. res.next = Update!None /\ res.reply = <<"X">> /\ res.image = <<>>
      BY <1>7, <2>2, Zenon DEF Update!Begin, Update!Refuse, Update!Response
    <3> QED
      BY <1>5, <3>1, Zenon
  <2>3. CASE ~ (d.size = 0 \/ d.size > MaxImage)
    <3>1. res.next = Update!Fresh(d) /\ res.reply = <<"K">> /\ res.image = <<>>
      BY <1>7, <2>3, Zenon DEF Update!Begin, Update!Response
    <3>2. res.next.size = d.size /\ res.next.crc = d.crc /\ res.next.arrived = {}
      BY <3>1 DEF Update!Fresh, Update!Transfer
    <3>3. d.size \in Nat /\ d.size # 0 /\ image # <<>>
      BY <2>3, <2>4
    <3> QED
      BY <1>4, <1>7, <2>4, <3>1, <3>2, <3>3, Zenon DEF HandleSound
  <2> QED
    BY <2>2, <2>3, Zenon
<1>8. CASE d.kind = "D" /\ res = Update!Data(d)
  <2>1. d.at \in Nat \ {0}
    BY <1>8, Zenon DEF Update!UpdateInv, Update!NetworkInv
  <2>2. CASE v2 = Update!None \/ d.at > v2.size
    <3>1. res.next = v2 /\ res.reply = <<"X">> /\ res.image = <<>>
      BY <1>8, <2>2, Zenon DEF Update!Data, Update!Refuse, Update!Response
    <3> QED
      BY <1>6, <1>8, <3>1, Zenon
  <2>3. CASE ~ (v2 = Update!None \/ d.at > v2.size)
    <3>1. /\ res.reply = <<"A", d.at>> /\ res.image = <<>>
          /\ res.next = IF d.at \in v2.arrived THEN v2
                        ELSE Update!Transfer(v2.size, v2.crc, [v2.image EXCEPT ![d.at] = d.chunk], v2.arrived \cup {d.at})
      BY <1>8, <2>3, Zenon DEF Update!Data, Update!Response
    <3>2. /\ res.next.size = v2.size /\ res.next.crc = v2.crc /\ res.next.arrived \subseteq 1..v2.size
      BY <1>3, <2>1, <2>3, <3>1 DEF Update!Transfer
    <3> QED
      BY <1>3, <1>4, <1>8, <2>3, <3>1, <3>2, Zenon DEF HandleSound
  <2> QED
    BY <2>2, <2>3, Zenon
<1>9. CASE d.kind \notin {"B", "D"} /\ res = Update!Finish
  <2>1. CASE v2 = Update!None \/ v2.arrived # 1..v2.size
    <3>1. res.next = v2 /\ res.reply = <<"X">> /\ res.image = <<>>
      BY <1>9, <2>1, Zenon DEF Update!Finish, Update!Refuse, Update!Response
    <3> QED
      BY <1>6, <1>9, <3>1, Zenon
  <2>2. CASE ~ (v2 = Update!None \/ v2.arrived # 1..v2.size) /\ ~ Update!Intact
    <3>1. res.next = Update!None /\ res.reply = <<"X">> /\ res.image = <<>>
      BY <1>9, <2>2, Zenon DEF Update!Finish, Update!Refuse, Update!Response
    <3> QED
      BY <1>5, <3>1, Zenon
  <2>3. CASE ~ (v2 = Update!None \/ v2.arrived # 1..v2.size) /\ Update!Intact
    <3>1. res.next = Update!None /\ res.reply = <<"F">> /\ res.image = v2.image
      BY <1>9, <2>3, Zenon DEF Update!Finish, Update!Response
    <3>2. v2.image = v2.crc
      BY <2>3, Zenon DEF Update!Intact, Update!Crc32
    <3> QED
      BY <1>2, <1>3, <1>4, <1>9, <2>3, <3>1, <3>2 DEF HandleSound
  <2> QED
    BY <2>1, <2>2, <2>3, Zenon
<1> QED
  BY <1>1, <1>7, <1>8, <1>9, Zenon DEF Update!Handle

(* An answer goes out: it only says that a run has begun, or was           *)
(* installed, when it was.                                                 *)
LEMMA UpdateReply ==
  ASSUME Update!UpdateInv, NEW d \in v8, NEW text, v9' = v9 \cup {[to |-> d.from, text |-> text]},
         UNCHANGED <<v5, v6, v7, v8>>,
         text = <<"K">> => d.kind = "B",
         text = <<"F">> => d.kind \notin {"B", "D"} /\ (Update!Began => v10' \/ Update!LastIsMine'),
         v10 => v10', Update!Began /\ Update!LastIsMine => v10' \/ Update!LastIsMine'
  PROVE  Update!SenderInv' /\ Update!NetworkInv' /\ (Update!Began' => Update!Began \/ (d.kind = "B" /\ d.from = v6))
<1>1. /\ Update!Mine' = Update!Mine /\ (Update!Began => Update!Began') /\ d.from \in 1..v6
  BY Zenon DEF Update!Began, Update!Mine, Update!UpdateInv, Update!NetworkInv
<1>2. Update!SenderInv'
  BY <1>1, Zenon DEF Update!UpdateInv, Update!SenderInv
<1>3. ASSUME NEW e \in v8'
      PROVE  /\ e.from \in 1..v6'
             /\ e.kind = "B" => e.crc = Image[e.from] /\ e.size = Len(Image[e.from])
             /\ e.kind = "D" => e.at \in Nat \ {0}
             /\ e.kind \notin {"B", "D"} /\ e.from = v6' => Update!Began'
  BY <1>1, <1>3, Zenon DEF Update!UpdateInv, Update!NetworkInv
<1>4. ASSUME NEW r \in v9'
      PROVE  /\ r.to \in 1..v6'
             /\ r.to = v6' /\ r.text = <<"F">> => Update!Began' /\ (v10' \/ Update!LastIsMine')
  <2>1. CASE r \in v9
    BY <1>1, <2>1, Zenon DEF Update!UpdateInv, Update!NetworkInv
  <2>2. CASE r = [to |-> d.from, text |-> text]
    BY <1>1, <2>2, Zenon DEF Update!UpdateInv, Update!NetworkInv
  <2> QED
    BY <2>1, <2>2, Zenon
<1>5. ASSUME Update!Began', ~ Update!Began
      PROVE  d.kind = "B" /\ d.from = v6
  <2>1. PICK r \in v9' : r.to = v6 /\ r.text = <<"K">>
    BY <1>5, Zenon DEF Update!Began
  <2>2. r = [to |-> d.from, text |-> text]
    BY <1>5, <2>1, Zenon DEF Update!Began
  <2> QED
    BY <2>1, <2>2, Zenon
<1> QED
  BY <1>2, <1>3, <1>4, <1>5, Zenon DEF Update!NetworkInv

(* A datagram arrives: an armed Pi installs at most one image before it is *)
(* disarmed, and then the one it was told of.                              *)
LEMMA UpdateReceive ==
  ASSUME Update!UpdateInv, NEW d \in v8, Update!Receive(d)
  PROVE  Update!UpdateInv'
<1>1. UNCHANGED <<v5, v6, v7, v8>> /\ Update!Mine' = Update!Mine /\ (v10 => v10')
  BY Zenon DEF Update!Receive, Update!Mine
<1>2. Update!None.size = 0 /\ Update!None.arrived = {} /\ <<"X">> # <<"K">> /\ <<"X">> # <<"F">>
  BY Zenon DEF Update!None, Update!Transfer
<1>3. PICK refusal : refusal = <<"X">>
  BY Zenon
<1>4. /\ v1 \in 0..ArmedFor /\ v3 \in BOOLEAN /\ v5 \in Nat /\ Len(v4) \in Nat /\ ArmedFor \in Nat
      /\ v4 \in Seq({image \in Update!Images : IsKernel(image)})
      /\ Len(v4) + (IF v1 > 0 THEN 1 ELSE 0) <= v5
  BY UpdateAssumption DEF Update!UpdateInv, Update!ReceiverInv
<1>5. CASE v1 = 0
  <2>1. v2' = Update!None /\ v9' = v9 \cup {[to |-> d.from, text |-> refusal]} /\ UNCHANGED <<v1, v3, v4>>
    BY <1>3, <1>5, Zenon DEF Update!Receive
  <2>2. Update!LastIsMine' <=> Update!LastIsMine
    BY <1>1, <2>1, Zenon DEF Update!LastIsMine
  <2>3. Update!SenderInv' /\ Update!NetworkInv'
    BY <1>1, <1>2, <1>3, <2>1, <2>2, UpdateReply, Zenon
  <2>4. Update!ReceiverInv'
    BY <1>1, <1>2, <1>4, <2>1 DEF Update!ReceiverInv
  <2> QED
    BY <2>3, <2>4, Zenon DEF Update!UpdateInv
<1>6. CASE v1 # 0
  <2>1. PICK res : res = Update!Handle(d)
    BY Zenon
  <2>2. HandleSound(d, res) /\ (d.kind = "B" /\ d.from # v6 /\ Update!Began => v10')
    BY <1>6, <2>1, UpdateHandle, Zenon DEF Update!Receive
  <2>3. PICK text : text = res.reply
    BY Zenon
  <2>4. CASE res.image = <<>>
    <3>1. v2' = res.next /\ v9' = v9 \cup {[to |-> d.from, text |-> text]} /\ v1' = ArmedFor /\ UNCHANGED <<v3, v4>>
      BY <1>6, <2>1, <2>3, <2>4, Zenon DEF Update!Receive
    <3>2. Update!LastIsMine' <=> Update!LastIsMine
      BY <1>1, <3>1, Zenon DEF Update!LastIsMine
    <3>3. (text = <<"K">> => d.kind = "B") /\ text # <<"F">>
      BY <2>2, <2>3, <2>4, Zenon DEF HandleSound
    <3>4. Update!SenderInv' /\ Update!NetworkInv' /\ (Update!Began' => Update!Began \/ (d.kind = "B" /\ d.from = v6))
      BY <1>1, <3>1, <3>2, <3>3, UpdateReply, Zenon
    <3>5. /\ v2'.size \in Nat /\ v2'.arrived \subseteq 1..v2'.size
          /\ v2' # Update!None => v2'.crc \in Update!Images \ {<<>>}
          /\ Update!Began' /\ ~v10' /\ v2' # Update!None => v2'.crc = Update!Mine'
      BY <1>1, <2>2, <3>1, <3>4, Zenon DEF HandleSound
    <3>6. v1' \in 0..ArmedFor /\ Len(v4') + (IF v1' > 0 THEN 1 ELSE 0) <= v5'
      BY <1>1, <1>4, <1>6, <3>1
    <3>7. Update!ReceiverInv'
      BY <1>1, <1>4, <3>1, <3>5, <3>6, Zenon DEF Update!ReceiverInv
    <3> QED
      BY <3>4, <3>7, Zenon DEF Update!UpdateInv
  <2>5. ASSUME res.image # <<>>, v2' = res.next, v1' = 0, v3' \in BOOLEAN, Len(v4') <= Len(v4) + 1, Len(v4') \in Nat,
               v4' \in Seq({image \in Update!Images : IsKernel(image)}), Update!SenderInv', Update!NetworkInv',
               Update!Began' => Update!Began \/ (d.kind = "B" /\ d.from = v6)
        PROVE  Update!UpdateInv'
    <3>1. /\ v2'.size \in Nat /\ v2'.arrived \subseteq 1..v2'.size
          /\ v2' # Update!None => v2'.crc \in Update!Images \ {<<>>}
          /\ Update!Began' /\ ~v10' /\ v2' # Update!None => v2'.crc = Update!Mine'
      BY <1>1, <2>2, <2>5, Zenon DEF HandleSound
    <3>2. v1' \in 0..ArmedFor /\ Len(v4') + (IF v1' > 0 THEN 1 ELSE 0) <= v5'
      BY <1>1, <1>4, <1>6, <2>5
    <3>3. Update!ReceiverInv'
      BY <1>1, <1>4, <2>5, <3>1, <3>2, Zenon DEF Update!ReceiverInv
    <3> QED
      BY <2>5, <3>3, Zenon DEF Update!UpdateInv
  <2>6. CASE res.image # <<>> /\ v4' = Append(v4, res.image)
    <3>1. /\ v2' = res.next /\ v1' = 0 /\ IsKernel(res.image) /\ v3' = TRUE
          /\ v9' = v9 \cup {[to |-> d.from, text |-> text]}
      <4>1. Append(v4, res.image) # v4
        BY <1>4
      <4> QED
        BY <1>6, <2>1, <2>3, <2>6, <4>1, Zenon DEF Update!Receive, Update!Disarm
    <3>2. PICK set, s, e : set = {image \in Update!Images : IsKernel(image)} /\ s = v4 /\ e = res.image
      BY Zenon
    <3>3. e \in set /\ s \in Seq(set) /\ (Update!Began /\ ~v10 => e = Update!Mine)
      BY <1>4, <2>2, <2>6, <3>1, <3>2, Zenon DEF HandleSound
    <3>4. v4' \in Seq(set) /\ Len(v4') = Len(s) + 1 /\ v4' # <<>> /\ v4'[Len(v4')] = e
      BY <2>6, <3>2, <3>3, KernelAdded
    <3>5. Update!Began => v10' \/ Update!LastIsMine'
      BY <1>1, <3>3, <3>4, Zenon DEF Update!LastIsMine
    <3>6. (text = <<"K">> => d.kind = "B") /\ (text = <<"F">> => d.kind \notin {"B", "D"})
      BY <2>2, <2>3, Zenon DEF HandleSound
    <3>7. Update!SenderInv' /\ Update!NetworkInv' /\ (Update!Began' => Update!Began \/ (d.kind = "B" /\ d.from = v6))
      BY <1>1, <3>1, <3>5, <3>6, UpdateReply
    <3>8. v3' \in BOOLEAN
      BY <3>1, Zenon
    <3> QED
      BY <1>4, <2>5, <2>6, <3>1, <3>2, <3>4, <3>7, <3>8
  <2>7. CASE res.image # <<>> /\ v4' # Append(v4, res.image)
    <3>1. v2' = res.next /\ v1' = 0 /\ v9' = v9 \cup {[to |-> d.from, text |-> refusal]} /\ UNCHANGED <<v3, v4>>
      BY <1>3, <1>6, <2>1, <2>7, Zenon DEF Update!Receive, Update!Disarm
    <3>2. Update!LastIsMine' <=> Update!LastIsMine
      BY <1>1, <3>1, Zenon DEF Update!LastIsMine
    <3>3. Update!SenderInv' /\ Update!NetworkInv' /\ (Update!Began' => Update!Began \/ (d.kind = "B" /\ d.from = v6))
      BY <1>1, <1>2, <1>3, <3>1, <3>2, UpdateReply, Zenon
    <3> QED
      BY <1>4, <2>5, <2>7, <3>1, <3>3
  <2> QED
    BY <2>4, <2>6, <2>7, Zenon
<1> QED
  BY <1>5, <1>6, Zenon
(* Rebooting, and time, only take away: an armed Pi stays armed for less,  *)
(* and a transfer is forgotten.                                            *)
LEMMA UpdateForget ==
  ASSUME Update!UpdateInv, v1' \in 0..ArmedFor, v1' > 0 => v1 > 0, v2' = v2 \/ v2' = Update!None, v3' \in BOOLEAN,
         UNCHANGED <<v4, v5, v6, v7, v8, v9, v10>>
  PROVE  Update!UpdateInv'
<1>1. Update!None.size = 0 /\ Update!None.arrived = {}
  BY Zenon DEF Update!None, Update!Transfer
<1>2. Update!Mine' = Update!Mine /\ (Update!Began' <=> Update!Began) /\ (Update!LastIsMine' <=> Update!LastIsMine)
  BY Zenon DEF Update!Mine, Update!Began, Update!LastIsMine
<1>3. Update!SenderInv' /\ Update!NetworkInv'
  BY <1>2, Zenon DEF Update!UpdateInv, Update!SenderInv, Update!NetworkInv
<1>4. v1' \in Nat /\ v1 \in Nat /\ Len(v4) + (IF v1' > 0 THEN 1 ELSE 0) <= v5
  BY UpdateAssumption DEF Update!UpdateInv, Update!ReceiverInv
<1>5. Update!ReceiverInv'
  BY <1>1, <1>2, <1>4 DEF Update!UpdateInv, Update!ReceiverInv
<1> QED
  BY <1>3, <1>5, Zenon DEF Update!UpdateInv

(* Arming the Pi: another `update` command, another installation.          *)
LEMMA UpdateArm ==
  ASSUME Update!UpdateInv, Update!Arm
  PROVE  Update!UpdateInv'
<1>1. UNCHANGED <<v2, v3, v4, v6, v8, v9, v10>> /\ v7.pc = "arm"
  BY Zenon DEF Update!Arm
<1>2. Update!Mine' = Update!Mine /\ (Update!Began' <=> Update!Began) /\ (Update!LastIsMine' <=> Update!LastIsMine)
  BY <1>1, Zenon DEF Update!Mine, Update!Began, Update!LastIsMine
<1>3. Update!NetworkInv'
  BY <1>1, <1>2, Zenon DEF Update!UpdateInv, Update!NetworkInv
<1>4. /\ v7' \in [pc : {"arm", "begin", "data", "end", "installed", "failed"}, at : Nat, tries : 0..Retries]
      /\ v7'.pc \in {"begin", "failed"}
  <2>1. v7 \in [pc : {"arm", "begin", "data", "end", "installed", "failed"}, at : Nat, tries : 0..Retries]
    BY Zenon DEF Update!UpdateInv, Update!SenderInv
  <2>2. v7' = [pc |-> "begin", at |-> 0, tries |-> 0] \/ v7' = [v7 EXCEPT !.pc = "failed"]
    BY Zenon DEF Update!Arm
  <2>3. CASE v7' = [pc |-> "begin", at |-> 0, tries |-> 0]
    BY <2>3, UpdateAssumption
  <2>4. CASE v7' = [v7 EXCEPT !.pc = "failed"]
    BY <2>1, <2>4, Zenon
  <2> QED
    BY <2>2, <2>3, <2>4, Zenon
<1>5. Update!SenderInv'
  BY <1>1, <1>4, Zenon DEF Update!UpdateInv, Update!SenderInv
<1>6. v1' \in 0..ArmedFor /\ v5' \in Nat /\ Len(v4) + (IF v1' > 0 THEN 1 ELSE 0) <= v5'
  <2>1. v1 \in 0..ArmedFor /\ v5 \in Nat /\ Len(v4) \in Nat /\ Len(v4) + (IF v1 > 0 THEN 1 ELSE 0) <= v5
    BY DEF Update!UpdateInv, Update!ReceiverInv
  <2>2. (v1' = ArmedFor /\ v5' = v5 + 1) \/ (v1' = v1 /\ v5' = v5)
    BY Zenon DEF Update!Arm
  <2> QED
    BY <2>1, <2>2, UpdateAssumption
<1>7. Update!ReceiverInv'
  BY <1>1, <1>2, <1>6, Zenon DEF Update!UpdateInv, Update!ReceiverInv
<1> QED
  BY <1>3, <1>5, <1>7, Zenon DEF Update!UpdateInv

(* exchange: a run's end is not sent before the Pi has begun.              *)
LEMMA UpdateSend ==
  ASSUME Update!UpdateInv, Update!Send
  PROVE  Update!UpdateInv'
<1>1. UNCHANGED <<v1, v2, v3, v4, v5, v6, v9, v10>> /\ v7.pc \in {"begin", "data", "end"}
  BY Zenon DEF Update!Send, Update!Sending
<1>2. Update!Mine' = Update!Mine /\ (Update!Began' <=> Update!Began) /\ (Update!LastIsMine' <=> Update!LastIsMine)
  BY <1>1, Zenon DEF Update!Mine, Update!Began, Update!LastIsMine
<1>3. Update!ReceiverInv'
  BY <1>1, <1>2, Zenon DEF Update!UpdateInv, Update!ReceiverInv
<1>4. /\ v7 \in [pc : {"arm", "begin", "data", "end", "installed", "failed"}, at : Nat, tries : 0..Retries]
      /\ (v7.pc \in {"data", "end"} => Update!Began) /\ (v7.pc = "data" => v7.at >= 1) /\ (v7.pc = "end" => v7.tries <= 1)
  BY Zenon DEF Update!UpdateInv, Update!SenderInv
<1>5. CASE v7.tries = Update!Tries
  <2>1. v7' = [v7 EXCEPT !.pc = "failed"] /\ v8' = v8
    BY <1>5, Zenon DEF Update!Send
  <2>2. /\ v7' \in [pc : {"arm", "begin", "data", "end", "installed", "failed"}, at : Nat, tries : 0..Retries]
        /\ v7'.pc = "failed"
    BY <1>4, <2>1, Zenon
  <2>3. Update!SenderInv'
    BY <1>1, <2>2, Zenon DEF Update!UpdateInv, Update!SenderInv
  <2>4. Update!NetworkInv'
    BY <1>1, <1>2, <2>1, Zenon DEF Update!UpdateInv, Update!NetworkInv
  <2> QED
    BY <1>3, <2>3, <2>4, Zenon DEF Update!UpdateInv
<1>6. CASE v7.tries # Update!Tries
  <2>1. v7' = [v7 EXCEPT !.tries = v7.tries + 1] /\ v8' = v8 \cup {Update!Datagram}
    BY <1>6, Zenon DEF Update!Send
  <2>2. v7.tries \in 0..Retries /\ v7.tries + 1 \in 0..Retries /\ (v7.pc = "end" => v7.tries + 1 <= 1)
    <3>1. v7.tries \in 0..Retries
      BY <1>4, Zenon
    <3>2. CASE v7.pc # "end"
      BY <1>6, <3>1, <3>2, UpdateAssumption DEF Update!Tries
    <3>3. CASE v7.pc = "end"
      <4>1. v7.tries = 0
        BY <1>4, <1>6, <3>1, <3>3 DEF Update!Tries
      <4> QED
        BY <4>1, UpdateAssumption
    <3> QED
      BY <3>1, <3>2, <3>3, Zenon
  <2>3. /\ v7' \in [pc : {"arm", "begin", "data", "end", "installed", "failed"}, at : Nat, tries : 0..Retries]
        /\ v7'.pc = v7.pc /\ v7'.at = v7.at /\ v7'.tries = v7.tries + 1
    BY <1>4, <2>1, <2>2, Zenon
  <2>4. Update!SenderInv'
    BY <1>1, <1>2, <1>4, <2>2, <2>3, Zenon DEF Update!UpdateInv, Update!SenderInv
  <2>5. PICK d : d = Update!Datagram
    BY Zenon
  <2>6. v6 \in Nat /\ v6 >= 1
    BY UpdateAssumption DEF Update!UpdateInv, Update!SenderInv
  <2>7. /\ d.from = v6
        /\ d.kind = "B" => d.crc = Image[d.from] /\ d.size = Len(Image[d.from])
        /\ d.kind = "D" => d.at \in Nat \ {0}
        /\ d.kind \notin {"B", "D"} => Update!Began
    <3>1. CASE v7.pc = "begin"
      BY <2>5, <3>1, Zenon DEF Update!Datagram, Update!Crc32, Update!Mine
    <3>2. CASE v7.pc = "data"
      <4>1. d.from = v6 /\ d.kind = "D" /\ d.at = v7.at
        BY <2>5, <3>2, Zenon DEF Update!Datagram
      <4>2. v7.at \in Nat \ {0}
        BY <1>4, <3>2
      <4> QED
        BY <4>1, <4>2, Zenon
    <3>3. CASE v7.pc = "end"
      BY <1>4, <2>5, <3>3, Zenon DEF Update!Datagram
    <3> QED
      BY <1>1, <3>1, <3>2, <3>3, Zenon
  <2>8. v8' = v8 \cup {d} /\ d.from \in 1..v6
    BY <2>1, <2>5, <2>6, <2>7
  <2>9. ASSUME NEW e \in v8'
        PROVE  /\ e.from \in 1..v6'
               /\ e.kind = "B" => e.crc = Image[e.from] /\ e.size = Len(Image[e.from])
               /\ e.kind = "D" => e.at \in Nat \ {0}
               /\ e.kind \notin {"B", "D"} /\ e.from = v6' => Update!Began'
    BY <1>1, <1>2, <2>7, <2>8, <2>9, Zenon DEF Update!UpdateInv, Update!NetworkInv
  <2>10. Update!NetworkInv'
    BY <1>1, <1>2, <2>9, Zenon DEF Update!UpdateInv, Update!NetworkInv
  <2> QED
    BY <1>3, <2>4, <2>10, Zenon DEF Update!UpdateInv
<1> QED
  BY <1>5, <1>6, Zenon

(* A reply that deploy.py takes: it goes on when the Pi has begun its      *)
(* transfer, and says installed when the Pi did that.                      *)
LEMMA UpdateTakeReply ==
  ASSUME Update!UpdateInv, NEW r \in v9, Update!TakeReply(r)
  PROVE  Update!UpdateInv'
<1>1. UNCHANGED <<v1, v2, v3, v4, v5, v6, v8, v9, v10>> /\ v7.pc \in {"begin", "data", "end"} /\ r.to = v6
  BY Zenon DEF Update!TakeReply, Update!Sending
<1>2. Update!Mine' = Update!Mine /\ (Update!Began' <=> Update!Began) /\ (Update!LastIsMine' <=> Update!LastIsMine)
  BY <1>1, Zenon DEF Update!Mine, Update!Began, Update!LastIsMine
<1>3. Update!ReceiverInv'
  BY <1>1, <1>2, Zenon DEF Update!UpdateInv, Update!ReceiverInv
<1>4. Update!NetworkInv'
  BY <1>1, <1>2, Zenon DEF Update!UpdateInv, Update!NetworkInv
<1>5. /\ v7 \in [pc : {"arm", "begin", "data", "end", "installed", "failed"}, at : Nat, tries : 0..Retries]
      /\ (v7.pc \in {"data", "end"} => Update!Began) /\ (v7.pc = "data" => v7.at >= 1)
  BY Zenon DEF Update!UpdateInv, Update!SenderInv
<1>6. /\ v7' \in [pc : {"arm", "begin", "data", "end", "installed", "failed"}, at : Nat, tries : 0..Retries]
      /\ (v7'.pc \in {"data", "end", "installed"} => Update!Began) /\ (v7'.pc = "data" => v7'.at >= 1)
      /\ (v7'.pc = "end" => v7'.tries <= 1)
      /\ (v7'.pc = "installed" => v10 \/ Update!LastIsMine)
  <2>1. CASE v7' = [v7 EXCEPT !.pc = "failed"]
    <3>1. /\ v7' \in [pc : {"arm", "begin", "data", "end", "installed", "failed"}, at : Nat, tries : 0..Retries]
          /\ v7'.pc = "failed"
      BY <1>5, <2>1, Zenon
    <3> QED
      BY <3>1, Zenon
  <2>2. CASE r.text = Update!Wanted /\ v7' = Update!Onward
    <3>1. Update!Began
      <4>1. CASE v7.pc = "begin"
        BY <1>1, <2>2, <4>1, Zenon DEF Update!Wanted, Update!Began
      <4> QED
        BY <1>1, <1>5, <4>1, Zenon
    <3>2. CASE v7.pc = "end"
      <4>1. r.text = <<"F">> /\ v7' = [v7 EXCEPT !.pc = "installed"]
        BY <2>2, <3>2, Zenon DEF Update!Wanted, Update!Onward
      <4>2. v10 \/ Update!LastIsMine
        BY <1>1, <4>1, Zenon DEF Update!UpdateInv, Update!NetworkInv
      <4>3. /\ v7' \in [pc : {"arm", "begin", "data", "end", "installed", "failed"}, at : Nat, tries : 0..Retries]
            /\ v7'.pc = "installed"
        BY <1>5, <4>1, Zenon
      <4> QED
        BY <3>1, <4>2, <4>3, Zenon
    <3>3. CASE v7.pc # "end"
      <4>1. \/ v7' = [pc |-> "data", at |-> v7.at + 1, tries |-> 0]
            \/ v7' = [pc |-> "end", at |-> v7.at, tries |-> 0]
        BY <2>2, <3>3, Zenon DEF Update!Onward
      <4>2. v7.at \in Nat /\ 0 \in 0..Retries
        BY <1>5, UpdateAssumption
      <4> QED
        BY <3>1, <4>1, <4>2
    <3> QED
      BY <3>2, <3>3, Zenon
  <2> QED
    BY <2>1, <2>2, Zenon DEF Update!TakeReply
<1>7. Update!SenderInv'
  BY <1>1, <1>2, <1>6, Zenon DEF Update!UpdateInv, Update!SenderInv
<1> QED
  BY <1>3, <1>4, <1>7, Zenon DEF Update!UpdateInv

(* Running deploy.py again: nothing on the network is of that run yet,     *)
(* whatever there is of earlier ones.                                      *)
LEMMA UpdateRunAgain ==
  ASSUME Update!UpdateInv, Update!RunAgain
  PROVE  Update!UpdateInv'
<1>1. UNCHANGED <<v1, v2, v3, v4, v5, v8, v9>> /\ v6 < Len(Image) /\ v6' = v6 + 1 /\ v7' = Update!Start
  BY Zenon DEF Update!RunAgain
<1>2. v6 \in Nat /\ v6 >= 1 /\ v6' \in DOMAIN Image /\ \A n \in 1..v6 : n \in 1..v6' /\ n # v6'
  BY <1>1, UpdateAssumption DEF Update!UpdateInv, Update!SenderInv
<1>3. \A r \in v9 : r.to \in 1..v6
  BY Zenon DEF Update!UpdateInv, Update!NetworkInv
<1>4. \A d \in v8 : /\ d.from \in 1..v6 /\ (d.kind = "D" => d.at \in Nat \ {0})
                    /\ d.kind = "B" => d.crc = Image[d.from] /\ d.size = Len(Image[d.from])
  BY Zenon DEF Update!UpdateInv, Update!NetworkInv
<1>5. ~ Update!Began'
  BY <1>1, <1>2, <1>3, Zenon DEF Update!Began
<1>6. Update!ReceiverInv'
  BY <1>1, <1>5, Zenon DEF Update!UpdateInv, Update!ReceiverInv
<1>7. /\ v7' \in [pc : {"arm", "begin", "data", "end", "installed", "failed"}, at : Nat, tries : 0..Retries]
      /\ v7'.pc = "arm"
  BY <1>1, UpdateAssumption DEF Update!Start
<1>8. Update!SenderInv'
  BY <1>2, <1>7, Zenon DEF Update!SenderInv
<1>9. Update!NetworkInv'
  <2>1. v8' = v8 /\ v9' = v9
    BY <1>1, Zenon
  <2>2. (\A d \in v8 : d.from \in 1..v6' /\ d.from # v6') /\ \A r \in v9 : r.to \in 1..v6' /\ r.to # v6'
    BY <1>2, <1>3, <1>4, Zenon
  <2>3. ASSUME NEW e \in v8'
        PROVE  /\ e.from \in 1..v6'
               /\ e.kind = "B" => e.crc = Image[e.from] /\ e.size = Len(Image[e.from])
               /\ e.kind = "D" => e.at \in Nat \ {0}
               /\ e.kind \notin {"B", "D"} /\ e.from = v6' => Update!Began'
    BY <1>4, <2>1, <2>2, <2>3, Zenon
  <2>4. ASSUME NEW r \in v9'
        PROVE  /\ r.to \in 1..v6'
               /\ r.to = v6' /\ r.text = <<"F">> => Update!Began' /\ (v10' \/ Update!LastIsMine')
    BY <2>1, <2>2, <2>4, Zenon
  <2> QED
    BY <2>3, <2>4, Zenon DEF Update!NetworkInv
<1> QED
  BY <1>6, <1>8, <1>9, Zenon DEF Update!UpdateInv

(* Every step of the component keeps its invariant.                        *)
LEMMA UpdateNext ==
  ASSUME Update!UpdateInv, [Update!Next]_(Update!vars)
  PROVE  Update!UpdateInv'
<1>1. v1 \in 0..ArmedFor /\ ArmedFor \in Nat /\ v3 \in BOOLEAN
  BY UpdateAssumption, Zenon DEF Update!UpdateInv, Update!ReceiverInv
<1>2. CASE Update!Reboot
  <2>1. v1' = 0 /\ v2' = Update!None /\ v3' = FALSE /\ UNCHANGED <<v4, v5, v6, v7, v8, v9, v10>>
    BY <1>2, Zenon DEF Update!Reboot
  <2>2. v3' \in BOOLEAN
    BY <2>1, Zenon
  <2>3. v1' \in 0..ArmedFor /\ ~ (v1' > 0)
    BY <1>1, <2>1
  <2> QED
    BY <2>1, <2>2, <2>3, UpdateForget, Zenon
<1>3. CASE Update!Tick
  BY <1>1, <1>3, UpdateForget DEF Update!Tick
<1>4. CASE UNCHANGED Update!vars
  BY <1>1, <1>4, UpdateForget, Zenon DEF Update!vars
<1> QED
  BY <1>2, <1>3, <1>4, UpdateReceive, UpdateArm, UpdateSend, UpdateTakeReply, UpdateRunAgain, Zenon
  DEF Update!Next

(* What the invariant is for.                                              *)
LEMMA UpdateSafe == Update!UpdateInv => Update!TypeOK /\ Update!OnlyWholeImages /\ Update!InstalledIsMine /\ Update!OneInstallEach
<1> SUFFICES ASSUME Update!UpdateInv PROVE Update!TypeOK /\ Update!OnlyWholeImages /\ Update!InstalledIsMine /\ Update!OneInstallEach
  BY Zenon
<1>1. Update!TypeOK
  BY Zenon DEF Update!UpdateInv, Update!ReceiverInv, Update!SenderInv, Update!TypeOK
<1>2. Update!OnlyWholeImages
  BY DEF Update!UpdateInv, Update!ReceiverInv, Update!OnlyWholeImages, Update!Images
<1>3. Update!InstalledIsMine
  BY Zenon DEF Update!UpdateInv, Update!SenderInv, Update!InstalledIsMine, Update!LastIsMine
<1>4. Update!OneInstallEach
  BY DEF Update!UpdateInv, Update!ReceiverInv, Update!OneInstallEach
<1> QED
  BY <1>1, <1>2, <1>3, <1>4, Zenon

(* What a Pi installs is the whole image of one run of deploy.py, which    *)
(* says installed only when it is its own, unless the begin of an earlier  *)
(* run came after the Pi had begun this one's transfer; and one command    *)
(* allows one installation: whatever the images are, and whichever         *)
(* datagrams are lost, repeated, late or out of order (update.rs,          *)
(* tools/deploy.py).                                                       *)
THEOREM UpdatesWholeAlways == Update!Spec => []UpdatesWhole
<1>1. Update!Init => Update!UpdateInv
  BY UpdateInit, Zenon
<1>2. Update!UpdateInv /\ [Update!Next]_(Update!vars) => Update!UpdateInv'
  BY UpdateNext, Zenon
<1>3. Update!UpdateInv => UpdatesWhole
  BY UpdateSafe, Zenon DEF UpdatesWhole
<1> QED
  BY <1>1, <1>2, <1>3, PTL DEF Update!Spec
=============================================================================
