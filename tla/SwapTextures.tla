----------------------------- MODULE SwapTextures -----------------------------
(***************************************************************************)
(* The swap texture sets of DirectModeComponent.  Each process that draws  *)
(* has sets of three shared textures, made and destroyed by calls that     *)
(* arrive on vrserver threads of their own (here one per process); the     *)
(* compositor names textures by handle in SubmitLayer, and Present looks   *)
(* the handles up and copies the textures, on the compositor's thread.     *)
(*                                                                         *)
(* device_mutex_ is held by Present from the sync texture to the end of    *)
(* the copy and by CreateSwapTextureSet from the device to the end of the  *)
(* call.  Everything under sets_mutex_ or present_mutex_ is one step.      *)
(* What Present does with the staging ring once it has the textures is     *)
(* FrameTransport, and the vsync thread is ShimLifecycle.                  *)
(***************************************************************************)
EXTENDS Integers, Sequences, FiniteSets

CONSTANTS
    Pids,               \* processes that own swap texture sets
    SyncHandles,        \* the compositor's sync textures
    kMaxTextureSets,
    kMaxDeviceAttempts,
    MaxCreates,         \* bound: calls of CreateSwapTextureSet
    ReuseHandles        \* may D3D give the handle of a freed texture again?

ASSUME SwapAssumption ==
    /\ "present" \notin Pids
    /\ kMaxTextureSets \in Nat
    /\ kMaxDeviceAttempts \in Nat
    /\ MaxCreates \in Nat
    /\ ReuseHandles \in BOOLEAN

Slot == 0..2                        \* the three textures of a set
Texture == 1..(3 * MaxCreates)      \* every texture ever made, in order
None == 0                           \* nullptr and the null handle
Eye == 1..2
NoEyes == [e \in Eye |-> None]
Thread == Pids \cup {"present"}

VARIABLES
    device_,            \* does the D3D11 device exist?
    device_attempts_,
    shared_textures_,   \* sync textures opened and cached
    sets_,              \* sequence of texture sets
    last_layer_texture_,\* what SubmitLayer named last, until a Present took it
    submitted_layers_,  \* was a layer submitted since the last Present?
    shut_down_,
    device_mutex_,      \* its owner, or "free"
    pc,                 \* where each thread is
    frame,              \* FrameSnapshot of the Present in progress
    eyes,               \* textures transport_frame_locked holds
    refs,               \* reference count of each texture
    handleOf,           \* handle D3D gave each texture
    made,               \* textures made so far
    creates,            \* calls of CreateSwapTextureSet so far
    out,                \* what the last CreateSwapTextureSet left its caller:
                        \* no handles, some of the three, or all
    gone                \* history: processes whose sets were all destroyed

deviceVars == <<device_, device_attempts_, shared_textures_>>
layerVars == <<last_layer_texture_, submitted_layers_>>
textureVars == <<refs, handleOf, made>>
presentVars == <<frame, eyes>>
vars == <<deviceVars, sets_, layerVars, shut_down_, device_mutex_, pc,
          presentVars, textureVars, creates, out, gone>>

(* A layer as submitted: the handles, and which textures they name.        *)
NoLayer == [handle |-> NoEyes, texture |-> NoEyes]

Init ==
    /\ device_ = FALSE
    /\ device_attempts_ = 0
    /\ shared_textures_ = {}
    /\ sets_ = <<>>
    /\ last_layer_texture_ = NoLayer
    /\ submitted_layers_ = FALSE
    /\ shut_down_ = FALSE
    /\ device_mutex_ = "free"
    /\ pc = [t \in Thread |-> "idle"]
    /\ frame = NoLayer
    /\ eyes = NoEyes
    /\ refs = [t \in Texture |-> 0]
    /\ handleOf = [t \in Texture |-> None]
    /\ made = 0
    /\ creates = 0
    /\ out = "none"
    /\ gone = {}

-----------------------------------------------------------------------------
(* Reference counts.  A texture made by CreateTexture2D has one reference; *)
(* one whose count is 0 is freed.                                          *)

TexturesOf(set) == {set.textures[i] : i \in Slot}

HeldBySets == UNION {TexturesOf(sets_[k]) : k \in DOMAIN sets_}

safe_release(S) == [t \in Texture |-> IF t \in S THEN refs[t] - 1 ELSE refs[t]]

(* Broken on purpose: the textures are looked up without a reference.      *)
AddRef_None(pair) == refs

(* The textures of eyes once more: the same texture may be in both.        *)
HoldersIn(pair, t) == Cardinality({e \in Eye : pair[e] = t})

AddRef(pair) == [t \in Texture |-> refs[t] + HoldersIn(pair, t)]
ReleaseEyes == [t \in Texture |-> refs[t] - HoldersIn(eyes, t)]

-----------------------------------------------------------------------------
(* The table.                                                              *)

HasHandle(set, h) == \E i \in Slot : set.handles[i] = h

(* Position of the first set with the handle, 0 if there is none.          *)
find_set_locked(h) ==
    LET found == {k \in DOMAIN sets_ : h # None /\ HasHandle(sets_[k], h)}
    IN  IF found = {} THEN 0 ELSE CHOOSE k \in found : \A j \in found : k <= j

(* Broken on purpose: the texture the set handed out last.                 *)
find_texture_locked_Index(h) ==
    LET k == find_set_locked(h)
    IN  IF k = 0 THEN None ELSE sets_[k].textures[sets_[k].index]

(* The texture with the handle, not the one its set handed out last.       *)
find_texture_locked(h) ==
    LET k == find_set_locked(h)
    IN  IF k = 0 THEN None
        ELSE sets_[k].textures[CHOOSE i \in Slot : sets_[k].handles[i] = h]

-----------------------------------------------------------------------------
(* The device.                                                             *)

(* ok: is there a device afterwards?  An attempt counts whether or not it  *)
(* succeeds, and after kMaxDeviceAttempts no other is made.                *)
ensure_device_locked(ok) ==
    \/ /\ device_
       /\ ok
       /\ UNCHANGED <<device_, device_attempts_>>
    \/ /\ ~device_
       /\ device_attempts_ >= kMaxDeviceAttempts
       /\ ~ok
       /\ UNCHANGED <<device_, device_attempts_>>
    \/ /\ ~device_
       /\ device_attempts_ < kMaxDeviceAttempts
       /\ device_attempts_' = device_attempts_ + 1
       /\ device_' = ok

(* Opened once and kept as long as the device.  Without memory for the     *)
(* cache the texture serves this frame and is opened again the next time.  *)
shared_texture_locked(h, ok) ==
    \/ /\ h \in shared_textures_
       /\ ok
       /\ UNCHANGED shared_textures_
    \/ /\ h \notin shared_textures_
       /\ ~ok
       /\ UNCHANGED shared_textures_
    \/ /\ h \notin shared_textures_
       /\ ok
       /\ \/ shared_textures_' = shared_textures_ \cup {h}
          \/ UNCHANGED shared_textures_

-----------------------------------------------------------------------------
(* Swap texture sets.                                                      *)

(* The call, up to the wait for device_mutex_.                             *)
CreateSwapTextureSet(p) ==
    /\ pc[p] = "idle"
    /\ creates < MaxCreates
    /\ creates' = creates + 1
    /\ pc' = [pc EXCEPT ![p] = "device"]
    /\ out' = "none"
    /\ gone' = gone \ {p}
    /\ UNCHANGED <<deviceVars, sets_, layerVars, shut_down_, device_mutex_,
                   presentVars, textureVars>>

CreateWithDevice(p) ==
    /\ pc[p] = "device"
    /\ device_mutex_ = "free"
    /\ \E ok \in BOOLEAN :
          /\ ensure_device_locked(ok)
          /\ IF ok THEN /\ device_mutex_' = p
                        /\ pc' = [pc EXCEPT ![p] = "sets"]
                   ELSE /\ UNCHANGED device_mutex_
                        /\ pc' = [pc EXCEPT ![p] = "idle"]
    /\ UNCHANGED <<shared_textures_, sets_, layerVars, shut_down_, presentVars,
                   textureVars, creates, out, gone>>

New(i) == made + 1 + i

(* The i-th of a set of numbers.                                           *)
Nth(K, i) == CHOOSE k \in K : Cardinality({j \in K : j <= k}) = i

(* Handles D3D may give, lowest first: none that names a live texture.     *)
FreeHandles == {h \in Texture : \A t \in Texture : refs[t] > 0 => handleOf[t] # h}

NewHandles ==
    IF ReuseHandles
    THEN [i \in Slot |-> Nth(FreeHandles, i + 1)]
    ELSE [i \in Slot |-> New(i)]

(* Broken on purpose: only the texture that failed is released.            *)
UndoCreate_LastOnly(n) ==
    [t \in Texture |-> IF \E i \in Slot : i + 1 < n /\ t = New(i) THEN 1 ELSE refs[t]]

(* The references left on the textures of a creation that failed after     *)
(* making n of them: each path releases all three.                         *)
UndoCreate(n) == refs

CreateFinished(p) ==
    /\ pc' = [pc EXCEPT ![p] = "idle"]
    /\ device_mutex_' = "free"
    /\ UNCHANGED <<deviceVars, layerVars, shut_down_, presentVars, creates, gone>>

(* The table is full, or there is no memory for the set.                   *)
CreateRefused(p) ==
    /\ pc[p] = "sets"
    /\ CreateFinished(p)
    /\ UNCHANGED <<sets_, textureVars, out>>

(* A texture, its IDXGIResource or its handle cannot be had: n textures    *)
(* were made and k handles had already been written for the caller.        *)
CreateFails(p) ==
    /\ pc[p] = "sets"
    /\ Len(sets_) < kMaxTextureSets
    /\ \E k \in Slot : \E n \in {k, k + 1} :
          /\ refs' = UndoCreate(n)
          /\ out' = IF k = 0 THEN "none" ELSE "some"
    /\ made' = made + 3
    /\ CreateFinished(p)
    /\ UNCHANGED <<sets_, handleOf>>

(* No memory for the table's entry: everything is undone.                  *)
CreateRolledBack(p) ==
    /\ pc[p] = "sets"
    /\ Len(sets_) < kMaxTextureSets
    /\ refs' = UndoCreate(3)
    /\ out' = "none"
    /\ made' = made + 3
    /\ CreateFinished(p)
    /\ UNCHANGED <<sets_, handleOf>>

CreateOk(p) ==
    /\ pc[p] = "sets"
    /\ Len(sets_) < kMaxTextureSets
    /\ LET set == [pid |-> p, textures |-> [i \in Slot |-> New(i)],
                   handles |-> NewHandles, index |-> 0]
       IN  /\ sets_' = Append(sets_, set)
           /\ refs' = [t \in Texture |-> IF t \in TexturesOf(set) THEN 1 ELSE refs[t]]
           /\ handleOf' = [t \in Texture |->
                              IF t \in TexturesOf(set) THEN set.handles[t - New(0)]
                              ELSE handleOf[t]]
    /\ out' = "all"
    /\ made' = made + 3
    /\ CreateFinished(p)

(* The table with the sets in these places, the others erased.             *)
Remaining(keep) == [i \in 1..Cardinality(keep) |-> sets_[Nth(keep, i)]]

(* Any one of its handles destroys a set; an unknown one is ignored.       *)
DestroySwapTextureSet(p, h) ==
    /\ pc[p] = "idle"
    /\ find_set_locked(h) # 0
    /\ LET k == find_set_locked(h)
       IN  /\ refs' = safe_release(TexturesOf(sets_[k]))
           /\ sets_' = Remaining(DOMAIN sets_ \ {k})
    /\ UNCHANGED <<deviceVars, layerVars, shut_down_, device_mutex_, pc,
                   presentVars, handleOf, made, creates, out, gone>>

(* Broken on purpose: from the first one on, and the set that moves into   *)
(* the place of a destroyed one is passed over.                            *)
WithoutPid_Forward(p) ==
    Remaining({k \in DOMAIN sets_ : sets_[k].pid # p \/ (k > 1 /\ sets_[k - 1].pid = p)})

(* The sets left when those of p were taken out, from the last one on.     *)
WithoutPid(p) == Remaining({k \in DOMAIN sets_ : sets_[k].pid # p})

DestroyAllSwapTextureSets(p) ==
    /\ pc[p] = "idle"
    /\ sets_' = WithoutPid(p)
    /\ refs' = safe_release(HeldBySets \ UNION {TexturesOf(sets_'[k]) : k \in DOMAIN sets_'})
    /\ gone' = gone \cup {p}
    /\ UNCHANGED <<deviceVars, layerVars, shut_down_, device_mutex_, pc,
                   presentVars, handleOf, made, creates, out>>

Advance(sets, k) ==
    IF k = 0 THEN sets ELSE [sets EXCEPT ![k].index = (@ + 1) % 3]

(* Both eyes in turn, so a set named by both moves on twice.               *)
GetNextSwapTextureSetIndex(p, left, right) ==
    /\ pc[p] = "idle"
    /\ sets_' = Advance(Advance(sets_, find_set_locked(left)), find_set_locked(right))
    /\ UNCHANGED <<deviceVars, layerVars, shut_down_, device_mutex_, pc,
                   presentVars, textureVars, creates, out, gone>>

-----------------------------------------------------------------------------
(* Layers.                                                                 *)

(* The last layer wins.  The compositor submits its layers before it calls *)
(* Present, on the same thread.                                            *)
SubmitLayer(left, right) ==
    /\ pc["present"] = "idle"
    /\ LET handle == <<left, right>>
       IN  last_layer_texture_' =
              [handle |-> handle,
               texture |-> [e \in Eye |-> find_texture_locked(handle[e])]]
    /\ submitted_layers_' = TRUE
    /\ UNCHANGED <<deviceVars, sets_, shut_down_, device_mutex_, pc,
                   presentVars, textureVars, creates, out, gone>>

(* The snapshot.  Without a layer since the last Present, or without a     *)
(* sync texture, that is all.  A layer that was taken is not looked at     *)
(* again, since submitted_layers_ is tested first.                         *)
Present ==
    /\ pc["present"] = "idle"
    /\ submitted_layers_
    /\ last_layer_texture_' = NoLayer
    /\ submitted_layers_' = FALSE
    /\ \/ /\ frame' = last_layer_texture_
          /\ pc' = [pc EXCEPT !["present"] = "device"]
       \/ UNCHANGED <<frame, pc>>
    /\ UNCHANGED <<deviceVars, sets_, shut_down_, device_mutex_, eyes,
                   textureVars, creates, out, gone>>

(* The sync texture is opened and its keyed mutex acquired, and a helper   *)
(* is connected; else the frame is dropped.                                *)
PresentWithDevice ==
    /\ pc["present"] = "device"
    /\ device_mutex_ = "free"
    /\ \E ok, opened, acquired \in BOOLEAN, h \in SyncHandles :
          /\ ensure_device_locked(ok)
          /\ IF ok THEN shared_texture_locked(h, opened)
                   ELSE opened = FALSE /\ UNCHANGED shared_textures_
          /\ IF opened /\ acquired
             THEN /\ device_mutex_' = "present"
                  /\ pc' = [pc EXCEPT !["present"] = "find"]
                  /\ UNCHANGED frame
             ELSE /\ UNCHANGED device_mutex_
                  /\ pc' = [pc EXCEPT !["present"] = "idle"]
                  /\ frame' = NoLayer
    /\ UNCHANGED <<sets_, layerVars, shut_down_, eyes, textureVars, creates,
                   out, gone>>

(* The reference is taken under sets_mutex_, together with the look-up.    *)
FindEyes ==
    /\ pc["present"] = "find"
    /\ eyes' = [e \in Eye |-> find_texture_locked(frame.handle[e])]
    /\ refs' = AddRef(eyes')
    /\ pc' = [pc EXCEPT !["present"] = "copy"]
    /\ UNCHANGED <<deviceVars, sets_, layerVars, shut_down_, device_mutex_,
                   frame, handleOf, made, creates, out, gone>>

(* The frame went to a slot or was dropped (one eye not found, formats     *)
(* that differ, no slot): EyeGuard releases the textures on every path.    *)
PresentReturns ==
    /\ pc["present"] = "copy"
    /\ refs' = ReleaseEyes
    /\ eyes' = NoEyes
    /\ frame' = NoLayer
    /\ device_mutex_' = "free"
    /\ pc' = [pc EXCEPT !["present"] = "idle"]
    /\ UNCHANGED <<deviceVars, sets_, layerVars, shut_down_, handleOf, made,
                   creates, out, gone>>

-----------------------------------------------------------------------------
(* Called by the destructor only, when no call is in progress; nothing is  *)
(* called afterwards.                                                      *)
shutdown ==
    /\ \A t \in Thread : pc[t] = "idle"
    /\ shut_down_' = TRUE
    /\ refs' = safe_release(HeldBySets)
    /\ sets_' = <<>>
    /\ device_' = FALSE
    /\ shared_textures_' = {}
    /\ UNCHANGED <<device_attempts_, layerVars, device_mutex_, pc, presentVars,
                   handleOf, made, creates, out, gone>>

(* What the compositor names in a layer: the texture each set handed out   *)
(* last.  What it names a set by: its first handle.                        *)
CurrentHandles == {sets_[k].handles[sets_[k].index] : k \in DOMAIN sets_}
SetHandles == {sets_[k].handles[0] : k \in DOMAIN sets_}

ProcessCalls(p) ==
    \/ CreateSwapTextureSet(p)
    \/ CreateWithDevice(p)
    \/ CreateRefused(p)
    \/ CreateFails(p)
    \/ CreateRolledBack(p)
    \/ CreateOk(p)
    \/ \E h \in SetHandles : DestroySwapTextureSet(p, h)
    \/ DestroyAllSwapTextureSets(p)
    \/ \E l, r \in SetHandles \cup {None} : GetNextSwapTextureSetIndex(p, l, r)

PresentThread ==
    \/ \E l, r \in CurrentHandles \cup {None} : SubmitLayer(l, r)
    \/ Present
    \/ PresentWithDevice
    \/ FindEyes
    \/ PresentReturns

Next ==
    /\ ~shut_down_
    /\ \/ \E p \in Pids : ProcessCalls(p)
       \/ PresentThread
       \/ shutdown

Spec == Init /\ [][Next]_vars

-----------------------------------------------------------------------------
TextureSet ==
    [pid : Pids, textures : [Slot -> Texture], handles : [Slot -> Texture], index : Slot]
MaybeTexture == Texture \cup {None}
Layer == [handle : [Eye -> MaybeTexture], texture : [Eye -> MaybeTexture]]

TypeOK ==
    /\ device_ \in BOOLEAN
    /\ device_attempts_ \in 0..kMaxDeviceAttempts
    /\ shared_textures_ \subseteq SyncHandles
    /\ sets_ \in Seq(TextureSet) /\ Len(sets_) <= kMaxTextureSets
    /\ last_layer_texture_ \in Layer /\ submitted_layers_ \in BOOLEAN
    /\ shut_down_ \in BOOLEAN
    /\ device_mutex_ \in Thread \cup {"free"}
    /\ pc \in [Thread -> {"idle", "device", "sets", "find", "copy"}]
    /\ frame \in Layer /\ eyes \in [Eye -> MaybeTexture]
    /\ refs \in [Texture -> 0..3] /\ handleOf \in [Texture -> MaybeTexture]
    /\ creates \in 0..MaxCreates /\ made \in 0..(3 * creates)
    /\ out \in {"none", "some", "all"}
    /\ gone \subseteq Pids

(* A texture has one reference for the set it is in and one for each eye   *)
(* Present holds it for, whatever calls destroyed its set meanwhile: a     *)
(* texture being copied is not freed (direct_mode.cpp:993-994), a set that *)
(* could not be finished leaves nothing behind, and after shutdown nothing *)
(* is left (direct_mode.h:81).                                             *)
RefsMatchHolders ==
    /\ \A t \in Texture :
          refs[t] = (IF t \in HeldBySets THEN 1 ELSE 0) + HoldersIn(eyes, t)
    /\ shut_down_ => ~device_ /\ sets_ = <<>> /\ \A t \in Texture : refs[t] = 0

(* DestroyAllSwapTextureSets leaves none of a process's sets in the table, *)
(* however many there are and wherever they lie, until it asks for another.*)
DeadOwnsNothing ==
    \A k \in DOMAIN sets_ : sets_[k].pid \notin gone

(* What Present copies is the texture the compositor meant when it         *)
(* submitted the layer, or nothing: not another index of its set           *)
(* (direct_mode.cpp:434-437), nor a texture made since.                    *)
CopiesSubmitted ==
    pc["present"] = "copy" => \A e \in Eye : eyes[e] \in {None, frame.texture[e]}

(* The caller of CreateSwapTextureSet has a whole set or none              *)
(* (direct_mode.cpp:480-481).                                              *)
WholeOrEmpty ==
    out \in {"none", "all"}
=============================================================================
