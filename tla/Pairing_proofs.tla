---------------------------- MODULE Pairing_proofs ----------------------------
(***************************************************************************)
(* Proofs about Pairing, for any headsets and any number of sessions and   *)
(* kills: who is let in, that the list of paired headsets is unambiguous,  *)
(* that the video request is withdrawn, and, where names do not begin with *)
(* '#' and the file can be read, that what was paired stays paired.        *)
(***************************************************************************)
EXTENDS Pairing, FiniteSetTheorems, WellFoundedInduction, TLAPS

-----------------------------------------------------------------------------
(* The list of names.                                                      *)

(* The first of a set of numbers.                                          *)
LEMMA Least ==
  ASSUME NEW T \in SUBSET Nat, T # {}
  PROVE  \E x \in T : \A y \in T : x <= y
  <1>1. PICK x \in T : \A y \in T : ~ (<<y, x>> \in OpToRel(<, Nat))
    BY WFMin, NatLessThanWellFounded
  <1>2. \A y \in T : ~ (y < x)
    BY <1>1 DEF OpToRel
  <1> QED BY <1>2

(* Of one number more than there are lines, one makes a name unlike all    *)
(* others: the loop over suffixes in add_known_key ends.                   *)
LEMMA SuffixFree ==
  ASSUME NEW keys, IsFiniteSet(keys), NEW T, NEW text \in Seq(T), NEW n \in Nat, n = Cardinality(keys),
         2 .. n + 2 \subseteq T
  PROVE  \E k \in 2 .. n + 2 : ~Clash(Append(text, k), keys)
  <1> SUFFICES ASSUME \A k \in 2 .. n + 2 : Clash(Append(text, k), keys) PROVE FALSE
    OBVIOUS
  <1> DEFINE f == [k \in 2 .. n + 2 |-> CHOOSE line \in keys : line.name.text = Append(text, k)]
  <1>1. \A k \in 2 .. n + 2 : f[k] \in keys /\ f[k].name.text = Append(text, k)
    BY DEF Clash
  <1>2. f \in [2 .. n + 2 -> keys]
    BY <1>1
  <1>3. IsFiniteSet(2 .. n + 2) /\ Cardinality(2 .. n + 2) = n + 1
    <2>1. 2 \in Int /\ n + 2 \in Int /\ (n + 2) - 2 + 1 = n + 1 /\ ~ (2 > n + 2)
      OBVIOUS
    <2> QED BY <2>1, FS_Interval
  <1> HIDE DEF f
  <1>4. PICK i, j \in 2 .. n + 2 : i # j /\ f[i] = f[j]
    <2>1. Cardinality(keys) < Cardinality(2 .. n + 2)
      BY <1>3
    <2> QED BY <1>2, <1>3, <2>1, FS_PigeonHole
  <1>5. Append(text, i) = Append(text, j)
    BY <1>1, <1>4
  <1>6. Append(text, i)[Len(text) + 1] = i /\ Append(text, j)[Len(text) + 1] = j
    OBVIOUS
  <1> QED BY <1>4, <1>5, <1>6

(* What the store keeps in a line.                                         *)
StoredText(text) ==
    /\ text \in Seq(Bases \cup Nat) /\ Len(text) >= 1
    /\ text[1] \in Bases /\ \A i \in 2 .. Len(text) : text[i] \in Nat

StoredName(name) == name \in [text : Seq(Bases \cup Nat), tab : {FALSE}] /\ StoredText(name.text)

Stored(line) ==
    /\ line \in [key : Keys, name : [text : Seq(Bases \cup Nat), tab : {FALSE}]]
    /\ StoredText(line.name.text)

Unambiguous(lines) ==
    \A line, other \in lines :
      line # other => line.key # other.key /\ line.name.text # other.name.text

(* FreeName returns the name, or the name with a number, unlike the others.*)
LEMMA FreeNameIsFree ==
  ASSUME NEW keys, IsFiniteSet(keys), NEW name, StoredName(name)
  PROVE  StoredName(FreeName(name, keys)) /\ ~Clash(FreeName(name, keys).text, keys)
  <1>1. CASE ~Clash(name.text, keys)
    BY <1>1 DEF FreeName
  <1>2. CASE Clash(name.text, keys)
    <2> DEFINE n == Cardinality(keys)
               free(k) == ~Clash(Append(name.text, k), keys)
               First(k) == free(k) /\ \A j \in 2 .. k - 1 : ~free(j)
    <2>1. n \in Nat
      BY FS_CardinalityType
    <2>2. name.text \in Seq(Bases \cup Nat) /\ StoredText(name.text)
          /\ name \in [text : Seq(Bases \cup Nat), tab : {FALSE}]
      BY DEF StoredName
    <2>3. \E k \in 2 .. n + 2 : free(k)
      <3>1. 2 .. n + 2 \subseteq Bases \cup Nat
        BY <2>1
      <3> QED BY <2>1, <2>2, <3>1, SuffixFree
    <2> DEFINE T == {k \in 2 .. n + 2 : free(k)}
    <2>4. \E k \in T : \A j \in T : k <= j
      <3>1. T \in SUBSET Nat /\ T # {}
        BY <2>1, <2>3
      <3> HIDE DEF T
      <3> QED BY <3>1, Least
    <2>5. \E k \in 2 .. n + 2 : First(k)
      <3>1. PICK k \in T : \A j \in T : k <= j
        BY <2>4
      <3>2. \A j \in 2 .. k - 1 : j \in 2 .. n + 2 /\ ~(k <= j)
        BY <2>1, <3>1
      <3> QED BY <3>1, <3>2
    <2> DEFINE m == CHOOSE k \in 2 .. n + 2 : First(k)
    <2>6. m \in 2 .. n + 2 /\ free(m)
      BY <2>5
    <2>7. FreeName(name, keys) = [name EXCEPT !.text = Append(@, m)]
      BY <1>2 DEF FreeName
    <2> HIDE DEF m
    <2>8. m \in Bases \cup Nat
      BY <2>1, <2>6
    <2>9. /\ [name EXCEPT !.text = Append(@, m)] \in [text : Seq(Bases \cup Nat), tab : {FALSE}]
          /\ [name EXCEPT !.text = Append(@, m)].text = Append(name.text, m)
      <3>1. Append(name.text, m) \in Seq(Bases \cup Nat)
        BY <2>2, <2>8
      <3>2. \A t \in Seq(Bases \cup Nat) :
              /\ [name EXCEPT !.text = t] \in [text : Seq(Bases \cup Nat), tab : {FALSE}]
              /\ [name EXCEPT !.text = t].text = t
        BY <2>2
      <3>3. [name EXCEPT !.text = Append(@, m)] = [name EXCEPT !.text = Append(name.text, m)]
        BY <2>2
      <3> QED BY <3>1, <3>2, <3>3
    <2>10. StoredText(Append(name.text, m))
      <3>1. m \in Nat
        BY <2>1, <2>6
      <3> QED BY <2>2, <3>1 DEF StoredText
    <2> QED BY <2>6, <2>7, <2>9, <2>10 DEF StoredName
  <1> QED BY <1>1, <1>2

(* Without tabs in the names the file reads back as some of its lines, and *)
(* as all of them if no name is taken for a comment.                       *)
LEMMA ReadsBack ==
  ASSUME NEW lines, \A line \in lines : Stored(line)
  PROVE  /\ known_keys(lines) \subseteq lines
         /\ HashBases = {} => known_keys(lines) = lines
  BY DEF known_keys, Stored

(* add_known_key: the list with one more headset in it.                    *)
LEMMA NewList ==
  ASSUME NEW keys, IsFiniteSet(keys), Unambiguous(keys), \A line \in keys : Stored(line),
         NEW h \in Headset, ~is_key_known(h.key, keys), NEW new,
         new = keys \cup {[key |-> h.key, name |-> FreeName(sanitize_name(h.name), keys)]}
  PROVE  /\ IsFiniteSet(new) /\ Unambiguous(new) /\ \A line \in new : Stored(line)
         /\ keys \subseteq new /\ \A line \in new : line \in keys \/ line.key = h.key
         /\ \E line \in new : line.key = h.key
  <1> DEFINE name == FreeName(sanitize_name(h.name), keys)
             add == [key |-> h.key, name |-> name]
  <1>1. StoredName(sanitize_name(h.name))
    <2>1. PICK b \in Bases : h.name.text = <<b>> \/ h.name.text = <<b, 2>>
      BY DEF Headset, Name
    <2>2. StoredText(h.name.text)
      <3>1. CASE h.name.text = <<b>>
        BY <3>1 DEF StoredText
      <3>2. CASE h.name.text = <<b, 2>>
        <4>1. b \in Bases \cup Nat /\ 2 \in Bases \cup Nat
          OBVIOUS
        <4>2. <<b, 2>> \in Seq(Bases \cup Nat) /\ Len(<<b, 2>>) = 2 /\ <<b, 2>>[1] = b /\ <<b, 2>>[2] = 2
          BY <4>1
        <4>3. \A i \in 2 .. 2 : i = 2
          OBVIOUS
        <4> QED BY <3>2, <4>2, <4>3 DEF StoredText
      <3> QED BY <2>1, <3>1, <3>2
    <2>3. h.name \in [text : {h.name.text}, tab : BOOLEAN]
      BY DEF Headset, Name
    <2>4. sanitize_name(h.name) \in [text : {h.name.text}, tab : {FALSE}]
      BY <2>3 DEF sanitize_name
    <2>5. \A n \in [text : {h.name.text}, tab : {FALSE}] :
            n.text = h.name.text /\ n \in [text : Seq(Bases \cup Nat), tab : {FALSE}]
      BY <2>2 DEF StoredText
    <2> QED BY <2>2, <2>4, <2>5 DEF StoredName
  <1>2. StoredName(name) /\ ~Clash(name.text, keys)
    BY <1>1, FreeNameIsFree
  <1>3. h.key \in Keys
    BY DEF Headset
  <1> HIDE DEF name
  <1>4. Stored(add) /\ add.key = h.key /\ add.name.text = name.text
    BY <1>2, <1>3 DEF Stored, StoredName
  <1>5. new = keys \cup {add}
    BY DEF name
  <1> HIDE DEF add
  <1>6. IsFiniteSet(new)
    BY <1>5, FS_AddElement
  <1>7. \A line \in keys : line.key # add.key /\ line.name.text # add.name.text
    BY <1>2, <1>4 DEF Clash, is_key_known
  <1>8. Unambiguous(new)
    BY <1>5, <1>7 DEF Unambiguous
  <1> QED BY <1>4, <1>5, <1>6, <1>8

-----------------------------------------------------------------------------
(* Who is in the list: only who has proved to know the PIN.                *)
Listed(lines) ==
    /\ IsFiniteSet(lines) /\ Unambiguous(lines)
    /\ \A line \in lines : Stored(line) /\ line.key \in proved

ListInv ==
    /\ Listed(file)
    /\ tmp # None => IsFiniteSet(tmp) /\ \A line \in tmp : Stored(line)
    /\ pcS = "replace" => Listed(tmp)

(* Where the session is, and what that says of the client.                 *)
SessionInv ==
    /\ pcS \in Handshaking \cup {"accept", "save", "replace", "run", "failed", "exited"}
    /\ stop \in BOOLEAN /\ known \in BOOLEAN /\ active \in BOOLEAN
    /\ encryption \in Encryption /\ proved \subseteq Keys /\ saved \subseteq Keys
    /\ sessions \in 0 .. MaxSessions /\ crashes \in 0 .. MaxCrashes
    /\ client \in Headset \cup {None}
    /\ pcS \notin {"accept", "exited", "failed"} => client \in Headset
    /\ pcS \in {"accept", "exited"} => known = FALSE
    /\ known = TRUE => client \in Headset /\ client.key \in proved
    /\ (pcS \in {"confirm", "stream", "info", "run"} /\ encryption # "disabled") => client.key \in proved
    /\ pcS \in {"save", "replace"} => client.key \in proved
    /\ pcS \in Handshaking \cup {"accept", "exited"} => active = FALSE

(* What was stored stays in the list, and the new list has all of it.      *)
KeptInv ==
    /\ \A k \in saved : is_key_known(k, file)
    /\ pcS = "replace" => file \subseteq tmp /\ is_key_known(client.key, tmp)

PairingInv == ListInv /\ SessionInv

(* The invariant holds before any headset is known. *)
LEMMA PairingInit == Init => PairingInv
  <1> SUFFICES ASSUME Init PROVE PairingInv
    OBVIOUS
  <1>1. ListInv
    BY FS_EmptySet DEF Init, ListInv, Listed, Unambiguous
  <1>2. SessionInv
    <2>1. pcS = "accept" /\ stop = FALSE /\ known = FALSE /\ active = FALSE /\ encryption \in Encryption
          /\ client = None /\ proved = {} /\ saved = {} /\ sessions = 0 /\ crashes = 0
      BY DEF Init
    <2>2. sessions \in 0 .. MaxSessions /\ crashes \in 0 .. MaxCrashes
      BY <2>1, PairingAssumption
    <2>3. ~(known = TRUE)
      BY <2>1
    <2> QED BY <2>1, <2>2, <2>3, Zenon DEF SessionInv, Handshaking
  <1> QED BY <1>1, <1>2 DEF PairingInv

(* What the file reads as, at any moment.                                  *)
LEMMA ReadingIsListed ==
  ASSUME Listed(file), NEW keys \in Readings
  PROVE  keys \subseteq file /\ Listed(keys)
  <1>1. keys \subseteq file
    BY ReadsBack DEF Listed, Readings
  <1>2. IsFiniteSet(keys)
    BY <1>1, FS_Subset DEF Listed
  <1> QED BY <1>1, <1>2 DEF Listed, Unambiguous

(* A step that leaves the list and who has proved the PIN alone.           *)
LEMMA ListKept ==
  ASSUME ListInv, UNCHANGED <<file, tmp>>, proved \subseteq proved', pcS' = "replace" => pcS = "replace"
  PROVE  ListInv'
  BY DEF ListInv, Listed, Unambiguous

(* Every step keeps the list.                                              *)
LEMMA ListStep == PairingInv /\ [Next]_vars => ListInv'
  <1> SUFFICES ASSUME PairingInv, [Next]_vars PROVE ListInv'
    OBVIOUS
  <1>1. CASE add_known_key
    <2>1. PICK keys \in Readings :
            \/ /\ ~is_key_known(client.key, keys)
               /\ tmp' = keys \cup {[key |-> client.key, name |-> FreeName(sanitize_name(client.name), keys)]}
            \/ pcS' = "run" /\ tmp' = tmp
      BY <1>1 DEF add_known_key
    <2>2. Listed(keys) /\ keys \subseteq file
      BY ReadingIsListed DEF PairingInv, ListInv
    <2>3. client \in Headset /\ client.key \in proved /\ UNCHANGED <<file, proved>>
      BY <1>1 DEF PairingInv, SessionInv, add_known_key
    <2>4. CASE pcS' = "run" /\ tmp' = tmp
      BY <2>3, <2>4, ListKept DEF PairingInv
    <2>5. CASE /\ ~is_key_known(client.key, keys)
               /\ tmp' = keys \cup {[key |-> client.key, name |-> FreeName(sanitize_name(client.name), keys)]}
      <3>1. /\ IsFiniteSet(tmp') /\ Unambiguous(tmp') /\ \A line \in tmp' : Stored(line)
            /\ \A line \in tmp' : line \in keys \/ line.key = client.key
        BY <2>2, <2>3, <2>5, NewList DEF Listed
      <3>2. \A line \in tmp' : line.key \in proved'
        BY <2>2, <2>3, <3>1 DEF Listed
      <3> QED BY <2>3, <3>1, <3>2 DEF PairingInv, ListInv, Listed, Unambiguous
    <2> QED BY <2>1, <2>4, <2>5
  <1>2. CASE write_file_atomic
    <2>1. CASE file' = tmp /\ tmp' = None
      BY <1>2, <2>1 DEF PairingInv, ListInv, Listed, write_file_atomic
    <2>2. CASE UNCHANGED <<file, tmp>>
      BY <1>2, <2>2, ListKept DEF PairingInv, write_file_atomic
    <2> QED BY <1>2, <2>1, <2>2 DEF write_file_atomic
  <1>3. CASE PinCheck
    BY <1>3, ListKept DEF PairingInv, PinCheck
  <1>4. CASE UNCHANGED <<file, tmp, proved>> /\ (pcS' = "replace" => pcS = "replace")
    BY <1>4, ListKept DEF PairingInv
  <1>5. Next => add_known_key \/ write_file_atomic \/ PinCheck
                \/ (UNCHANGED <<file, tmp, proved>> /\ (pcS' = "replace" => pcS = "replace"))
    <2> USE DEF Handshaking
    <2>1. (\E h \in Headset : accept_connection(h)) \/ ServerExits \/ CryptoHandshake \/ ConfirmAndStream
            => UNCHANGED <<file, tmp, proved>> /\ pcS' # "replace"
      BY DEF accept_connection, ServerExits, CryptoHandshake, ConfirmAndStream, PairingInv, SessionInv,
             Encryption
    <2>2. on_headset_info \/ HandshakeFails \/ SessionEnds \/ ClearClient \/ Stop \/ Restart
            => UNCHANGED <<file, tmp, proved>> /\ (pcS' = "replace" => pcS = "replace")
      BY DEF on_headset_info, HandshakeFails, SessionEnds, ClearClient, Stop, Restart
    <2> QED BY <2>1, <2>2 DEF Next
  <1>6. UNCHANGED vars => UNCHANGED <<file, tmp, proved, pcS>>
    BY DEF vars
  <1> QED BY <1>1, <1>2, <1>3, <1>4, <1>5, <1>6

(* Every step keeps what the place in the handshake says of the client.    *)
LEMMA SessionStep == PairingInv /\ [Next]_vars => SessionInv'
  <1> SUFFICES ASSUME PairingInv, [Next]_vars PROVE SessionInv'
    OBVIOUS
  <1>s. SessionInv /\ Listed(file)
    BY DEF PairingInv, ListInv
  <1> USE <1>s, PairingAssumption DEF SessionInv, Handshaking, Encryption
  <1>1. ASSUME NEW h \in Headset, accept_connection(h) PROVE SessionInv'
    BY <1>1 DEF accept_connection
  <1>2. CASE ServerExits
    BY <1>2 DEF ServerExits
  <1>3. CASE CryptoHandshake
    <2>1. PICK keys \in Readings : known' = is_key_known(client.key, keys)
      BY <1>3 DEF CryptoHandshake
    <2>2. Listed(keys)
      BY ReadingIsListed
    <2>3. known' \in BOOLEAN /\ (known' = TRUE => client.key \in proved)
      BY <2>1, <2>2 DEF is_key_known, Listed
    <2>4. /\ pcS = "crypto" /\ client \in Headset
          /\ UNCHANGED <<stop, encryption, client, active, proved, saved, sessions, crashes>>
      BY <1>3 DEF CryptoHandshake
    <2>5. pcS' \in {"confirm", "failed", "pin"} /\ (pcS' = "confirm" => encryption = "disabled" \/ known' = TRUE)
      <3>1. encryption \in {"disabled", "enabled", "pairing"}
        BY DEF Encryption
      <3>2. pcS' = CASE encryption = "disabled" -> "confirm"
                     [] encryption = "enabled" -> IF known' THEN "confirm" ELSE "failed"
                     [] encryption = "pairing" -> IF known' THEN "confirm" ELSE "pin"
        BY <1>3 DEF CryptoHandshake
      <3>3. known' = TRUE \/ known' = FALSE
        BY <2>3
      <3> QED BY <3>1, <3>2, <3>3
    <2> QED BY <2>3, <2>4, <2>5
  <1>4. CASE PinCheck
    BY <1>4 DEF PinCheck, Headset
  <1>5. CASE ConfirmAndStream
    BY <1>5 DEF ConfirmAndStream
  <1>6. CASE on_headset_info
    BY <1>6 DEF on_headset_info
  <1>7. CASE HandshakeFails
    BY <1>7 DEF HandshakeFails
  <1>8. CASE add_known_key
    BY <1>8 DEF add_known_key
  <1>9. CASE write_file_atomic
    BY <1>9 DEF write_file_atomic, Headset
  <1>10. CASE SessionEnds
    BY <1>10 DEF SessionEnds
  <1>11. CASE ClearClient
    BY <1>11 DEF ClearClient
  <1>12. CASE Stop
    BY <1>12 DEF Stop
  <1>13. CASE Restart
    <2>1. /\ pcS' = "accept" /\ stop' = FALSE /\ known' = FALSE /\ active' = FALSE /\ client' = None
          /\ encryption' \in Encryption /\ UNCHANGED <<proved, saved, sessions>>
          /\ crashes < MaxCrashes /\ crashes' = crashes + 1
      BY <1>13 DEF Restart
    <2>2. crashes' \in 0 .. MaxCrashes
      BY <2>1
    <2>3. ~(known' = TRUE)
      BY <2>1
    <2> QED BY <2>1, <2>2, <2>3, Zenon
  <1>14. CASE UNCHANGED vars
    BY <1>14 DEF vars
  <1> QED BY <1>1, <1>2, <1>3, <1>4, <1>5, <1>6, <1>7, <1>8, <1>9, <1>10, <1>11, <1>12, <1>13, <1>14 DEF Next

(* The inductive invariant of the server loop, handshake and key file.     *)
THEOREM PairingInvariant == Spec => []PairingInv
  <1>1. PairingInv /\ [Next]_vars => PairingInv'
    BY ListStep, SessionStep DEF PairingInv
  <1> QED BY <1>1, PairingInit, PTL DEF Spec

(* Type correctness of the server loop and the key file.                   *)
THEOREM PairingTypeOK == Spec => []TypeOK
  <1>1. PairingInv => TypeOK
    <2>1. \A line : Stored(line) => IsLine(line)
      BY DEF Stored, StoredText, IsLine
    <2> QED BY <2>1 DEF PairingInv, ListInv, Listed, SessionInv, TypeOK
  <1> QED BY <1>1, PairingInvariant, PTL

(* With encryption on, the server runs a session only with a headset whose *)
(* user knew the PIN, now or when it was stored (session.cpp handshake).   *)
THEOREM PairingOnlyPairedHeadsets == Spec => []OnlyPairedHeadsets
  <1>1. PairingInv => OnlyPairedHeadsets
    BY DEF PairingInv, SessionInv, OnlyPairedHeadsets
  <1> QED BY <1>1, PairingInvariant, PTL

(* No two headsets of the list have the same key or name, whatever names   *)
(* headsets give themselves and however the file reads (store.cpp          *)
(* add_known_key).                                                         *)
THEOREM PairingNoDuplicates == Spec => []NoDuplicates
  <1>1. PairingInv => NoDuplicates
    BY DEF PairingInv, ListInv, Listed, Unambiguous, NoDuplicates
  <1> QED BY <1>1, PairingInvariant, PTL

(* The server waits for a headset, or has returned, with no request for    *)
(* video left behind (server.cpp:161-165).                                 *)
THEOREM PairingVideoReleased == Spec => []VideoReleased
  <1>1. PairingInv => VideoReleased
    BY DEF PairingInv, SessionInv, VideoReleased
  <1> QED BY <1>1, PairingInvariant, PTL

-----------------------------------------------------------------------------
(* What was stored stays in the file, if the file can be read and names do *)
(* not look like comments.                                                 *)
LEMMA KeptStep ==
  ASSUME HashBases = {}, ReadMayFail = FALSE
  PROVE  PairingInv /\ KeptInv /\ [Next]_vars => KeptInv'
  <1> SUFFICES ASSUME PairingInv, KeptInv, [Next]_vars PROVE KeptInv'
    OBVIOUS
  <1>1. CASE add_known_key
    <2>1. PICK keys \in Readings :
            \/ /\ ~is_key_known(client.key, keys)
               /\ tmp' = keys \cup {[key |-> client.key, name |-> FreeName(sanitize_name(client.name), keys)]}
            \/ pcS' = "run" /\ tmp' = tmp
      BY <1>1 DEF add_known_key
    <2>2. keys = file
      BY ReadsBack DEF PairingInv, ListInv, Listed, Readings
    <2>3. UNCHANGED <<file, saved, client>>
      BY <1>1 DEF add_known_key
    <2>4. CASE pcS' = "run" /\ tmp' = tmp
      BY <2>3, <2>4 DEF KeptInv
    <2>5. ASSUME NEW name, tmp' = file \cup {[key |-> client.key, name |-> name]}
          PROVE  KeptInv'
      <3> DEFINE add == [key |-> client.key, name |-> name]
      <3>2. add \in tmp' /\ add.key = client'.key /\ file' \subseteq tmp'
        BY <2>3, <2>5
      <3> HIDE DEF add
      <3>1. file' \subseteq tmp' /\ is_key_known(client'.key, tmp')
        BY <3>2 DEF is_key_known
      <3> QED BY <2>3, <3>1 DEF KeptInv
    <2> QED BY <2>1, <2>2, <2>4, <2>5
  <1>2. CASE write_file_atomic
    BY <1>2 DEF write_file_atomic, KeptInv, is_key_known
  <1>3. CASE UNCHANGED <<file, tmp, saved>> /\ (pcS' = "replace" => pcS = "replace" /\ client' = client)
    BY <1>3 DEF KeptInv
  <1>4. Next => add_known_key \/ write_file_atomic
                \/ (UNCHANGED <<file, tmp, saved>> /\ (pcS' = "replace" => pcS = "replace" /\ client' = client))
    <2> USE DEF Handshaking
    <2>1. (\E h \in Headset : accept_connection(h)) \/ ServerExits \/ CryptoHandshake \/ ConfirmAndStream
            => UNCHANGED <<file, tmp, saved>> /\ pcS' # "replace"
      BY DEF accept_connection, ServerExits, CryptoHandshake, ConfirmAndStream, PairingInv, SessionInv,
             Encryption
    <2>2. PinCheck \/ on_headset_info \/ HandshakeFails \/ SessionEnds \/ ClearClient \/ Stop \/ Restart
            => UNCHANGED <<file, tmp, saved>> /\ (pcS' = "replace" => pcS = "replace" /\ client' = client)
      BY DEF PinCheck, on_headset_info, HandshakeFails, SessionEnds, ClearClient, Stop, Restart
    <2> QED BY <2>1, <2>2 DEF Next
  <1>5. UNCHANGED vars => UNCHANGED <<file, tmp, saved, pcS, client>>
    BY DEF vars
  <1> QED BY <1>1, <1>2, <1>3, <1>4, <1>5

(* A headset once stored stays known, over later pairings, failed writes   *)
(* and kills at any point (store.h is_key_known, add_known_key), where the *)
(* file can be read and no headset's name begins with '#'.                 *)
THEOREM PairingPairedStaysPaired ==
  ASSUME HashBases = {}, ReadMayFail = FALSE
  PROVE  Spec => []PairedStaysPaired
  <1>1. Init => KeptInv
    BY DEF Init, KeptInv
  <1>2. PairingInv /\ KeptInv /\ [Next]_vars => KeptInv'
    BY KeptStep
  <1>3. PairingInv /\ KeptInv => PairedStaysPaired
    BY ReadsBack DEF PairingInv, ListInv, Listed, KeptInv, PairedStaysPaired
  <1> QED BY <1>1, <1>2, <1>3, PairingInvariant, PTL DEF Spec
=============================================================================
