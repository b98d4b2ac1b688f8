------------------------------ MODULE NetLinks ------------------------------
(***************************************************************************)
(* What comes by network: an address (Dhcp), the time (ClockSync) and a    *)
(* new kernel (Update).                                                    *)
(***************************************************************************)
EXTENDS Integers, Sequences, LinkVars

CONSTANTS Servers, RetryTime, RenewTime, RequestTries, MaxXid, SntpTries, SntpRetry, Resync,
          Retry, MaxLate, MaxAge, Image, IsKernel(_), MaxImage, ArmedFor, Retries

\* An address is a server's, never "none"; REQUESTs are sent at least once.
ASSUME DhcpAssumption ==
  /\ "none" \notin Servers
  /\ RetryTime \in Nat /\ RenewTime \in Nat
  /\ RequestTries \in Nat \ {0} /\ MaxXid \in Nat \ {0}

\* A server is asked at least once; a round takes no longer than a datagram may.
ASSUME ClockAssumption ==
  /\ SntpTries \in Nat \ {0} /\ SntpRetry \in Nat /\ Resync \in Nat /\ Retry \in Nat
  /\ MaxLate \in Nat /\ MaxAge \in Nat /\ MaxLate <= MaxAge

\* There is an image to send, and a datagram is sent at least once.
ASSUME UpdateAssumption ==
  Image \in Seq(Seq(Nat)) /\ Image # <<>> /\ ArmedFor \in Nat /\ Retries \in Nat \ {0}

Dhcp == INSTANCE Dhcp WITH
  dhcp <- v1, config <- v2, events <- v3, status <- v4, lastXid <- v5, asked <- v6,
  replies <- v7
Clock == INSTANCE ClockSync WITH
  sync <- v1, wire <- v2, clock <- v3, late <- v4, polled <- v5
Update == INSTANCE Update WITH
  armed <- v1, transfer <- v2, reboot <- v3, kernel <- v4, arms <- v5, run <- v6, sender <- v7,
  sent <- v8, replies <- v9, overtaken <- v10
-----------------------------------------------------------------------------
\* Whatever messages are late, repeated or lost:
\*   - receive_dhcp takes an address from the transaction under way and from no other.
\*   - What the network task believes of the address follows the interface, event by event.
\*   - An address is given up only when its server refuses it.
AddressIsGranted ==
  [][part = "dhcp" =>
       /\ Dhcp!TypeOK'
       /\ Dhcp!AddressGranted'
       /\ Dhcp!StatusFollows'
       /\ Dhcp!LostOnlyByNakStep]_vars

\* Whichever request an answer is to:
\*   - When the clock is set, it is wrong by half the round trip at most.
ClockSetClose ==
  part = "clock" =>
    /\ Clock!TypeOK
    /\ Clock!SetClose

\* Whatever datagrams are lost, repeated or reordered:
\*   - What update::Receiver installs is a kernel, and the image of one run of deploy.py.
\*   - deploy.py says installed only when the Pi boots the image it sent, unless the begin of an
\*     earlier run came after the Pi had begun this one's transfer.
\*   - One `update` command lets one kernel be installed at most.
UpdatesWhole ==
  part = "update" =>
    /\ Update!TypeOK
    /\ Update!OnlyWholeImages
    /\ Update!InstalledIsMine
    /\ Update!OneInstallEach
=============================================================================
