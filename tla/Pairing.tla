------------------------------- MODULE Pairing -------------------------------
(***************************************************************************)
(* The WiVRn thread of the helper from accept() to the end of a session:   *)
(* run_wivrn_server, Session's handshake with its three encryption modes,  *)
(* and the list of paired headsets that store.cpp keeps in a text file.    *)
(*                                                                         *)
(* The headset is external: it has a key and a name, knows the PIN or not, *)
(* speaks this protocol version or not, and may fall silent at any time.   *)
(* The helper may be killed and started again with other options.          *)
(***************************************************************************)
EXTENDS Naturals, Sequences, FiniteSets

CONSTANTS
    Keys,         \* public keys of headsets
    Bases,        \* what headsets call themselves
    HashBases,    \* the ones of them that begin with '#'
    ReadMayFail,  \* may the key file be there and not be readable for a moment?
    MaxSessions,  \* bound: connections accepted
    MaxCrashes,   \* bound: times the helper is killed
    None, Garbled

ASSUME PairingAssumption ==
    /\ HashBases \subseteq Bases
    /\ ReadMayFail \in BOOLEAN
    /\ MaxSessions \in Nat /\ MaxCrashes \in Nat
    /\ None \notin Keys /\ Garbled \notin Keys

VARIABLES
    pcS,         \* the WiVRn thread
    stop,        \* the process is shutting down
    encryption,  \* ServerOptions::encryption
    client,      \* the headset of the current connection
    known,       \* is_public_key_known, as read in the handshake
    active,      \* VideoBridge's request: a client wants video
    file,        \* known_keys.txt, its lines; nothing looks at their order
    tmp,         \* known_keys.txt.new
    proved,      \* history: keys that went through a PIN check
    saved,       \* history: keys that add_known_key has stored
    sessions, crashes

vars == <<pcS, stop, encryption, client, known, active, file, tmp, proved, saved, sessions, crashes>>

(* A name is its text, with the numbers in brackets that follow it, and    *)
(* whether it has a tab or a line end in it.                               *)
Name == [text : {<<b>> : b \in Bases} \cup {<<b, 2>> : b \in Bases}, tab : BOOLEAN]

Headset == [key : Keys, name : Name, knowsPin : BOOLEAN, compatible : BOOLEAN]

Encryption == {"disabled", "enabled", "pairing"}

Handshaking == {"crypto", "pin", "confirm", "stream", "info"}

IsLine(line) ==
    /\ line.key \in Keys
    /\ line.name.tab \in BOOLEAN
    /\ line.name.text[1] \in Bases
    /\ \A i \in 2 .. Len(line.name.text) : line.name.text[i] \in Nat

TypeOK ==
    /\ pcS \in Handshaking \cup {"accept", "save", "replace", "run", "failed", "exited"}
    /\ stop \in BOOLEAN
    /\ encryption \in Encryption
    /\ client \in Headset \cup {None}
    /\ known \in BOOLEAN
    /\ active \in BOOLEAN
    /\ IsFiniteSet(file) /\ \A line \in file : IsLine(line)
    /\ tmp # None => IsFiniteSet(tmp) /\ \A line \in tmp : IsLine(line)
    /\ proved \subseteq Keys /\ saved \subseteq Keys
    /\ sessions \in 0 .. MaxSessions /\ crashes \in 0 .. MaxCrashes

Init ==
    /\ pcS = "accept" /\ stop = FALSE /\ encryption \in Encryption
    /\ client = None /\ known = FALSE /\ active = FALSE
    /\ file = {} /\ tmp = None
    /\ proved = {} /\ saved = {}
    /\ sessions = 0 /\ crashes = 0

-----------------------------------------------------------------------------
(* store.cpp                                                               *)

(* What the lines read back as: '#' starts a comment, the first tab ends   *)
(* the name.                                                               *)
known_keys(lines) ==
    {IF line.name.tab THEN [line EXCEPT !.key = Garbled] ELSE line :
       line \in {l \in lines : l.name.text[1] \notin HashBases}}

(* A file that cannot be opened reads as one without keys.                 *)
Readings == {known_keys(file)} \cup (IF ReadMayFail THEN {{}} ELSE {})

is_key_known(key, keys) == \E line \in keys : line.key = key

(* Broken on purpose: the name is stored as the headset sent it.           *)
sanitize_name_Verbatim(name) == name

sanitize_name(name) == [name EXCEPT !.tab = FALSE]

Clash(text, keys) == \E line \in keys : line.name.text = text

(* Broken on purpose: only one number is tried.                            *)
FreeName_OnlyTwo(name, keys) ==
    IF ~Clash(name.text, keys) THEN name ELSE [name EXCEPT !.text = Append(@, 2)]

(* The name itself, or with the first number that makes it unlike others.  *)
FreeName(name, keys) ==
    IF ~Clash(name.text, keys) THEN name
    ELSE LET free(n) == ~Clash(Append(name.text, n), keys)
             n == CHOOSE k \in 2 .. Cardinality(keys) + 2 : free(k) /\ \A j \in 2 .. k - 1 : ~free(j)
         IN [name EXCEPT !.text = Append(@, n)]

(* write_file_atomic: the new list goes to a file of its own ...           *)
add_known_key ==
    /\ pcS = "save"
    /\ \E keys \in Readings :
         \/ /\ ~is_key_known(client.key, keys)
            /\ tmp' = keys \cup {[key |-> client.key,
                                 name |-> FreeName(sanitize_name(client.name), keys)]}
            /\ pcS' = "replace"
         \/ /\ is_key_known(client.key, keys)
            /\ pcS' = "run"
            /\ UNCHANGED tmp
    /\ UNCHANGED <<stop, encryption, client, known, active, file, proved, saved, sessions, crashes>>

(* ... which then takes the old one's place, or cannot.                    *)
write_file_atomic ==
    /\ pcS = "replace"
    /\ \/ file' = tmp /\ tmp' = None /\ saved' = saved \cup {client.key}
       \/ UNCHANGED <<file, tmp, saved>>
    /\ pcS' = "run"
    /\ UNCHANGED <<stop, encryption, client, known, active, proved, sessions, crashes>>

-----------------------------------------------------------------------------
(* run_wivrn_server and Session.                                           *)

accept_connection(h) ==
    /\ pcS = "accept"
    /\ ~stop
    /\ sessions < MaxSessions
    /\ sessions' = sessions + 1
    /\ client' = h
    /\ pcS' = "crypto"
    /\ UNCHANGED <<stop, encryption, known, active, file, tmp, proved, saved, crashes>>

(* The loop ends on stop, and when poll or accept fails.                   *)
ServerExits ==
    /\ pcS = "accept"
    /\ pcS' = "exited"
    /\ UNCHANGED <<stop, encryption, client, known, active, file, tmp, proved, saved, sessions, crashes>>

(* Broken on purpose: only the pairing mode asks whether the key is known. *)
CryptoHandshake_LetsIn ==
    /\ pcS = "crypto"
    /\ client.compatible
    /\ \E keys \in Readings :
         /\ known' = is_key_known(client.key, keys)
         /\ pcS' = IF encryption = "pairing" /\ ~known' THEN "pin" ELSE "confirm"
    /\ UNCHANGED <<stop, encryption, client, active, file, tmp, proved, saved, sessions, crashes>>

(* The first message: version, then whether this headset may come in.      *)
CryptoHandshake ==
    /\ pcS = "crypto"
    /\ client.compatible
    /\ \E keys \in Readings :
         /\ known' = is_key_known(client.key, keys)
         /\ pcS' = CASE encryption = "disabled" -> "confirm"
                     [] encryption = "enabled" -> IF known' THEN "confirm" ELSE "failed"
                     [] encryption = "pairing" -> IF known' THEN "confirm" ELSE "pin"
    /\ UNCHANGED <<stop, encryption, client, active, file, tmp, proved, saved, sessions, crashes>>

(* The four messages of the socialist millionaires' protocol.              *)
PinCheck ==
    /\ pcS = "pin"
    /\ client.knowsPin
    /\ proved' = proved \cup {client.key}
    /\ pcS' = "confirm"
    /\ UNCHANGED <<stop, encryption, client, known, active, file, tmp, saved, sessions, crashes>>

(* The client's confirmation, encrypted; then the stream socket.           *)
ConfirmAndStream ==
    /\ pcS \in {"confirm", "stream"}
    /\ pcS' = IF pcS = "confirm" THEN "stream" ELSE "info"
    /\ UNCHANGED <<stop, encryption, client, known, active, file, tmp, proved, saved, sessions, crashes>>

on_headset_info ==
    /\ pcS = "info"
    /\ active' = TRUE
    /\ pcS' = IF encryption = "pairing" /\ ~known THEN "save" ELSE "run"
    /\ UNCHANGED <<stop, encryption, client, known, file, tmp, proved, saved, sessions, crashes>>

(* A timeout, a socket error, another packet than expected, a wrong PIN, a *)
(* wrong version, stop: the constructor throws and no destructor runs.     *)
HandshakeFails ==
    /\ pcS \in Handshaking
    /\ pcS' = "failed"
    /\ \/ pcS = "info" /\ active' = TRUE
       \/ UNCHANGED active
    /\ UNCHANGED <<stop, encryption, client, known, file, tmp, proved, saved, sessions, crashes>>

(* Session::run returns, ~Session runs.                                    *)
SessionEnds ==
    /\ pcS = "run"
    /\ active' = FALSE
    /\ pcS' = "failed"
    /\ UNCHANGED <<stop, encryption, client, known, file, tmp, proved, saved, sessions, crashes>>

(* Broken on purpose: clear_client is left to ~Session.                    *)
ClearClient_Forgotten ==
    /\ pcS = "failed"
    /\ client' = None
    /\ known' = FALSE
    /\ pcS' = "accept"
    /\ UNCHANGED <<stop, encryption, active, file, tmp, proved, saved, sessions, crashes>>

(* What the server loop does after every session.                          *)
ClearClient ==
    /\ pcS = "failed"
    /\ active' = FALSE
    /\ client' = None
    /\ known' = FALSE
    /\ pcS' = "accept"
    /\ UNCHANGED <<stop, encryption, file, tmp, proved, saved, sessions, crashes>>

Stop ==
    /\ ~stop
    /\ stop' = TRUE
    /\ UNCHANGED <<pcS, encryption, client, known, active, file, tmp, proved, saved, sessions, crashes>>

(* Killed and started again, perhaps with other options.                   *)
Restart ==
    /\ crashes < MaxCrashes
    /\ crashes' = crashes + 1
    /\ pcS' = "accept" /\ stop' = FALSE /\ encryption' \in Encryption
    /\ client' = None /\ known' = FALSE /\ active' = FALSE
    /\ UNCHANGED <<file, tmp, proved, saved, sessions>>

Next ==
    \/ \E h \in Headset : accept_connection(h)
    \/ ServerExits
    \/ CryptoHandshake
    \/ PinCheck
    \/ ConfirmAndStream
    \/ on_headset_info
    \/ HandshakeFails
    \/ add_known_key
    \/ write_file_atomic
    \/ SessionEnds
    \/ ClearClient
    \/ Stop
    \/ Restart

Spec == Init /\ [][Next]_vars

-----------------------------------------------------------------------------
(* With encryption on, a session is only ever run with a headset that has  *)
(* proved, in this connection or before the file was written, that its     *)
(* user knows the PIN.                                                     *)
OnlyPairedHeadsets ==
    (pcS \in {"stream", "info", "save", "replace", "run"} /\ encryption # "disabled")
      => client.key \in proved

(* store.h: is_key_known is "True if this key has been paired before", and *)
(* add_known_key "Appends a newly paired headset": what was stored stays   *)
(* known, whatever is paired later and whenever the helper is killed.      *)
PairedStaysPaired == \A k \in saved : is_key_known(k, known_keys(file))

(* The user can tell the headsets in the list apart, and each is in it     *)
(* once.                                                                   *)
NoDuplicates ==
    \A line, other \in file :
      line # other => line.key # other.key /\ line.name.text # other.name.text

(* server.cpp:161-165: no encoder is left running for a client that never  *)
(* finished connecting.                                                    *)
VideoReleased == pcS \in {"accept", "exited"} => ~active

(* server.h: "Listen, accept, run one session, repeat, until `stop`. This  *)
(* is the whole WiVRn thread; it never returns before then."               *)
NeverReturnsBeforeStop == pcS = "exited" => stop
=============================================================================
