---------------------------- MODULE HeaderProofs ----------------------------
(***************************************************************************)
(* The header of the storefront tells the truth, for any wallets, any      *)
(* moments of script, catalog and reload, and both React trees alive.      *)
(*                                                                         *)
(* The tree the page last heard of either still shows the key the page     *)
(* believes in, or has news for the page; nobody needs to know which tree  *)
(* that is.                                                                *)
(***************************************************************************)
EXTENDS StorefrontHeader, TLAPS

(* One mount at most for the poll, one for the catalog. *)
MountsBounded ==
  Len(trees) <= (IF polling THEN 0 ELSE 1) + (IF boot = "ready" THEN 1 ELSE 0)

TypeInv == TypeOK /\ MountsBounded

LEMMA OtherMode ==
  ASSUME NEW mode \in Modes
  PROVE  (CHOOSE m \in Modes : m # mode) \in Modes
<1>1. \E m \in Modes : m # mode
  BY DEF Modes
<1> QED
  BY <1>1

LEMMA InitialThemeType == ThemeTypeOK => InitialTheme \in Modes
  BY DEF ThemeTypeOK, InitialTheme, Modes

LEMMA InitTypes == Init => TypeInv
<1> SUFFICES ASSUME Init PROVE TypeInv
  OBVIOUS
<1>1. trees \in Seq(Trees) /\ Len(trees) = 0
  <2>1. trees = <<>>
    BY DEF Init, WalletInit
  <2>2. <<>> \in Seq(Trees) /\ Len(<<>>) = 0
    OBVIOUS
  <2> QED
    BY <2>1, <2>2, Zenon
<1>2. WalletTypeOK
  <2>1. signer \in 0 .. Len(trees) /\ disconnecter \in Remounter .. Len(trees)
    BY <1>1 DEF Init, WalletInit, Undefined, Remounter
  <2>2. /\ script \in BOOLEAN /\ polling \in BOOLEAN /\ rpc \in BOOLEAN
        /\ boot \in {"loading", "ready", "failed"}
        /\ bridge \in Accounts /\ header \in Accounts \union {Absent}
    BY DEF Init, WalletInit, Accounts
  <2>3. Len(trees) <= 2
    BY <1>1
  <2> QED
    BY <1>1, <2>1, <2>2, <2>3 DEF WalletTypeOK
<1>3. ThemeTypeOK
  BY DEF Init, ThemeInit, ThemeTypeOK, InitialTheme, Modes
<1>4. MountsBounded
  BY <1>1 DEF MountsBounded, Init, WalletInit
<1> QED
  BY <1>2, <1>3, <1>4 DEF TypeInv, TypeOK

(* A mount appends a tree. *)
LEMMA MountedType ==
  ASSUME trees \in Seq(Trees)
  PROVE  /\ Mounted \in Seq(Trees)
         /\ Len(Mounted) = Len(trees) + 1
         /\ \A t \in 1 .. Len(trees) : Mounted[t] = trees[t]
         /\ Mounted[Len(Mounted)].endpoint = "unrendered"
         /\ ~Mounted[Len(Mounted)].due
<1> DEFINE new == [endpoint |-> "unrendered", key |-> None, drawn |-> None, due |-> FALSE]
<1>1. new \in Trees
  BY DEF Trees, Accounts
<1>2. Mounted = Append(trees, new)
  BY DEF Mounted
<1>3. new.endpoint = "unrendered" /\ ~new.due
  OBVIOUS
<1> HIDE DEF new
<1>4. Mounted[Len(Mounted)] = new
  BY <1>1, <1>2
<1> QED
  BY <1>1, <1>2, <1>3, <1>4

(* A step of one tree. *)
LEMMA TreeStep ==
  ASSUME trees \in Seq(Trees), NEW t \in 1 .. Len(trees), NEW tree \in Trees,
         trees' = [trees EXCEPT ![t] = tree]
  PROVE  /\ trees' \in Seq(Trees)
         /\ Len(trees') = Len(trees)
         /\ trees'[t] = tree
         /\ \A u \in (1 .. Len(trees)) \ {t} : trees'[u] = trees[u]
  OBVIOUS

(* What Render, Dispatch and KeyChanges make of a tree. *)
LEMMA RenderTree ==
  ASSUME WalletTypeOK, NEW t \in 1 .. Len(trees), Render(t)
  PROVE  /\ trees' \in Seq(Trees) /\ Len(trees') = Len(trees)
         /\ \A u \in (1 .. Len(trees)) \ {t} : trees'[u] = trees[u]
         /\ trees'[t].drawn = trees[t].key
         /\ trees'[t].key = trees[t].key
         /\ trees'[t].endpoint
              = IF trees[t].endpoint # "unrendered" THEN trees[t].endpoint
                ELSE IF rpc THEN "shop" ELSE "default"
         /\ trees[t].drawn # trees[t].key => trees'[t].due
<1> DEFINE tree == Rendered(trees[t])
<1>1. trees[t] \in Trees /\ trees \in Seq(Trees)
  BY DEF WalletTypeOK
<1>2. /\ tree \in Trees
      /\ tree.drawn = trees[t].key
      /\ tree.key = trees[t].key
      /\ tree.endpoint = IF trees[t].endpoint # "unrendered" THEN trees[t].endpoint
                         ELSE IF rpc THEN "shop" ELSE "default"
      /\ trees[t].drawn # trees[t].key => tree.due
  BY <1>1 DEF Trees, Rendered
<1>3. trees' = [trees EXCEPT ![t] = tree]
  BY DEF Render
<1> HIDE DEF tree
<1> QED
  BY <1>1, <1>2, <1>3, TreeStep

LEMMA DispatchTree ==
  ASSUME WalletTypeOK, NEW t \in 1 .. Len(trees), Dispatch(t)
  PROVE  /\ trees' \in Seq(Trees) /\ Len(trees') = Len(trees)
         /\ \A u \in (1 .. Len(trees)) \ {t} : trees'[u] = trees[u]
         /\ trees'[t].drawn = trees[t].drawn
         /\ trees'[t].endpoint = trees[t].endpoint
         /\ ~trees'[t].due
         /\ bridge' = trees[t].drawn
<1> DEFINE tree == [trees[t] EXCEPT !.due = FALSE]
<1>1. trees[t] \in Trees /\ trees \in Seq(Trees)
  BY DEF WalletTypeOK
<1>2. /\ tree \in Trees /\ tree.drawn = trees[t].drawn /\ tree.endpoint = trees[t].endpoint
      /\ ~tree.due
  BY <1>1 DEF Trees
<1>3. trees' = [trees EXCEPT ![t] = tree]
  BY DEF Dispatch
<1> HIDE DEF tree
<1>4. bridge' = trees[t].drawn
  BY DEF Dispatch, Tell
<1> QED
  BY <1>1, <1>2, <1>3, <1>4, TreeStep

LEMMA KeyChangesTree ==
  ASSUME WalletTypeOK, NEW t \in 1 .. Len(trees), KeyChanges(t)
  PROVE  /\ trees' \in Seq(Trees) /\ Len(trees') = Len(trees)
         /\ \A u \in (1 .. Len(trees)) \ {t} : trees'[u] = trees[u]
         /\ trees'[t].drawn = trees[t].drawn
         /\ trees'[t].due = trees[t].due
         /\ trees'[t].endpoint = trees[t].endpoint
<1>1. trees[t] \in Trees /\ trees \in Seq(Trees)
  BY DEF WalletTypeOK
<1>2. PICK k \in Accounts : trees' = [trees EXCEPT ![t].key = k]
  BY DEF KeyChanges
<1> DEFINE tree == [trees[t] EXCEPT !.key = k]
<1>3. /\ tree \in Trees /\ tree.drawn = trees[t].drawn /\ tree.due = trees[t].due
      /\ tree.endpoint = trees[t].endpoint
  BY <1>1 DEF Trees
<1>4. trees' = [trees EXCEPT ![t] = tree]
  BY <1>2
<1> HIDE DEF tree
<1> QED
  BY <1>1, <1>3, <1>4, TreeStep

-----------------------------------------------------------------------------
(* Types, and how many trees there can be. *)

Scalars ==
  /\ script \in BOOLEAN /\ polling \in BOOLEAN /\ rpc \in BOOLEAN
  /\ boot \in {"loading", "ready", "failed"}
  /\ bridge \in Accounts /\ header \in Accounts \union {Absent}

Forest == trees \in Seq(Trees) /\ Len(trees) \in Nat /\ Len(trees) <= 2

Owners == signer \in 0 .. Len(trees) /\ disconnecter \in Remounter .. Len(trees)

LEMMA WalletTypeParts ==
  /\ WalletTypeOK <=> Scalars /\ Forest /\ Owners
  /\ WalletTypeOK' <=> Scalars' /\ Forest' /\ Owners'
  BY DEF WalletTypeOK, Scalars, Forest, Owners

LEMMA RenderTypes ==
  ASSUME TypeInv, NEW t \in 1 .. Len(trees), Render(t)
  PROVE  WalletTypeOK' /\ MountsBounded'
<1>1. Scalars /\ Forest /\ Owners /\ MountsBounded
  BY WalletTypeParts DEF TypeInv, TypeOK
<1>2. trees' \in Seq(Trees) /\ Len(trees') = Len(trees)
  BY RenderTree DEF TypeInv, TypeOK
<1>3. /\ script' = script /\ polling' = polling /\ boot' = boot /\ rpc' = rpc
      /\ bridge' = bridge /\ header' = header /\ signer' = t /\ disconnecter' = t
  BY DEF Render
<1>4. Scalars' /\ MountsBounded'
  BY <1>1, <1>2, <1>3 DEF Scalars, MountsBounded
<1>5. Forest' /\ Owners'
  BY <1>1, <1>2, <1>3 DEF Forest, Owners, Remounter
<1> QED
  BY <1>4, <1>5, WalletTypeParts

LEMMA DispatchTypes ==
  ASSUME TypeInv, NEW t \in 1 .. Len(trees), Dispatch(t)
  PROVE  WalletTypeOK' /\ MountsBounded'
<1>1. Scalars /\ Forest /\ Owners /\ MountsBounded
  BY WalletTypeParts DEF TypeInv, TypeOK
<1>2. trees' \in Seq(Trees) /\ Len(trees') = Len(trees)
  BY DispatchTree DEF TypeInv, TypeOK
<1>3. /\ script' = script /\ polling' = polling /\ boot' = boot /\ rpc' = rpc
      /\ signer' = signer /\ disconnecter' = disconnecter
      /\ bridge' = trees[t].drawn /\ header' \in {Absent, trees[t].drawn}
  BY DEF Dispatch, Tell
<1>4. trees[t].drawn \in Accounts
  <2>1. trees[t] \in Trees
    BY <1>1 DEF Forest
  <2> QED
    BY <2>1 DEF Trees
<1>5. Scalars' /\ MountsBounded'
  BY <1>1, <1>2, <1>3, <1>4 DEF Scalars, MountsBounded
<1>6. Forest' /\ Owners'
  BY <1>1, <1>2, <1>3 DEF Forest, Owners, Remounter
<1> QED
  BY <1>5, <1>6, WalletTypeParts

LEMMA KeyChangesTypes ==
  ASSUME TypeInv, NEW t \in 1 .. Len(trees), KeyChanges(t)
  PROVE  WalletTypeOK' /\ MountsBounded'
<1>1. Scalars /\ Forest /\ Owners /\ MountsBounded
  BY WalletTypeParts DEF TypeInv, TypeOK
<1>2. trees' \in Seq(Trees) /\ Len(trees') = Len(trees)
  BY KeyChangesTree DEF TypeInv, TypeOK
<1>3. /\ script' = script /\ polling' = polling /\ boot' = boot /\ rpc' = rpc
      /\ signer' = signer /\ disconnecter' = disconnecter
      /\ bridge' = bridge /\ header' = header
  BY DEF KeyChanges
<1>4. Scalars' /\ MountsBounded'
  BY <1>1, <1>2, <1>3 DEF Scalars, MountsBounded
<1>5. Forest' /\ Owners'
  BY <1>1, <1>2, <1>3 DEF Forest, Owners
<1> QED
  BY <1>4, <1>5, WalletTypeParts

LEMMA PollTypes ==
  ASSUME TypeInv, Poll
  PROVE  WalletTypeOK' /\ MountsBounded'
<1>1. Scalars /\ Forest /\ Owners /\ MountsBounded
  BY WalletTypeParts DEF TypeInv, TypeOK
<1>2. trees' \in Seq(Trees) /\ Len(trees') = Len(trees) + 1
  BY <1>1, MountedType DEF Forest, Poll
<1>3. /\ script' = script /\ boot' = boot /\ rpc' = rpc /\ polling /\ polling' = FALSE
      /\ signer' = signer /\ disconnecter' = disconnecter
      /\ bridge' = bridge /\ header' = header
  BY DEF Poll
<1>4. MountsBounded' /\ Len(trees') <= 2
  BY <1>1, <1>2, <1>3 DEF MountsBounded, Forest
<1>5. Scalars'
  BY <1>1, <1>3 DEF Scalars
<1>6. Forest' /\ Owners'
  BY <1>1, <1>2, <1>3, <1>4 DEF Forest, Owners, Remounter
<1> QED
  BY <1>4, <1>5, <1>6, WalletTypeParts

LEMMA BootTypes ==
  ASSUME TypeInv, Boot
  PROVE  WalletTypeOK' /\ MountsBounded'
<1>1. Scalars /\ Forest /\ Owners /\ MountsBounded
  BY WalletTypeParts DEF TypeInv, TypeOK
<1>2. trees' \in Seq(Trees) /\ (Len(trees') = Len(trees) \/ Len(trees') = Len(trees) + 1)
  BY <1>1, MountedType DEF Forest, Boot
<1>3. /\ script' = script /\ boot = "loading" /\ boot' = "ready" /\ rpc' = TRUE
      /\ polling' = polling /\ signer' = signer /\ disconnecter' = disconnecter
      /\ bridge' = bridge /\ header' = bridge
  BY DEF Boot
<1>4. MountsBounded' /\ Len(trees') <= 2
  BY <1>1, <1>2, <1>3 DEF MountsBounded, Forest
<1>5. Scalars'
  BY <1>1, <1>3 DEF Scalars
<1>6. Forest' /\ Owners'
  BY <1>1, <1>2, <1>3, <1>4 DEF Forest, Owners, Remounter
<1> QED
  BY <1>4, <1>5, <1>6, WalletTypeParts

(* Steps that leave the trees alone. *)
LEMMA OtherTypes ==
  ASSUME TypeInv, RunScript \/ BootFails \/ ClickDisconnect \/ UNCHANGED walletVars
  PROVE  WalletTypeOK' /\ MountsBounded'
<1>1. Scalars /\ Forest /\ Owners /\ MountsBounded
  BY WalletTypeParts DEF TypeInv, TypeOK
<1>2. /\ trees' = trees /\ polling' = polling /\ rpc' \in {rpc, TRUE}
      /\ script' \in {script, TRUE}
      /\ boot' = boot \/ (boot = "loading" /\ boot' = "failed")
      /\ signer' = signer /\ disconnecter' \in {disconnecter, Remounter}
      /\ bridge' \in {bridge, None} /\ header' \in {header, Absent, None}
  BY DEF RunScript, BootFails, ClickDisconnect, Tell, walletVars
<1>3. MountsBounded'
  BY <1>1, <1>2 DEF MountsBounded, Forest
<1>4. Scalars'
  BY <1>1, <1>2 DEF Scalars, Accounts
<1>5. Forest'
  BY <1>1, <1>2 DEF Forest
<1>6. Owners'
  BY <1>1, <1>2 DEF Forest, Owners, Remounter
<1> QED
  BY <1>3, <1>4, <1>5, <1>6, WalletTypeParts

LEMMA WalletTypes ==
  ASSUME TypeInv, WalletNext \/ Boot \/ UNCHANGED walletVars
  PROVE  WalletTypeOK' /\ MountsBounded'
  BY RenderTypes, DispatchTypes, KeyChangesTypes, PollTypes, BootTypes, OtherTypes
  DEF WalletNext

LEMMA ThemeTypes ==
  ASSUME ThemeTypeOK, Toggle \/ ShowToggle \/ LoadTheme \/ UNCHANGED themeVars
  PROVE  ThemeTypeOK'
<1>1. CASE Toggle
  <2>1. theme' \in Modes
    BY <1>1, OtherMode DEF ThemeTypeOK, Toggle
  <2> QED
    BY <1>1, <2>1 DEF ThemeTypeOK, Toggle
<1>2. CASE ShowToggle \/ UNCHANGED themeVars
  BY <1>2 DEF ThemeTypeOK, ShowToggle, themeVars
<1>3. CASE LoadTheme
  BY <1>3, InitialThemeType DEF ThemeTypeOK, LoadTheme
<1> QED
  BY <1>1, <1>2, <1>3

LEMMA RestartTypes == WalletRestart => WalletTypeOK' /\ MountsBounded'
<1> SUFFICES ASSUME WalletRestart PROVE WalletTypeOK' /\ MountsBounded'
  OBVIOUS
<1>1. trees' \in Seq(Trees) /\ Len(trees') = 0
  <2>1. trees' = <<>>
    BY DEF WalletRestart
  <2>2. <<>> \in Seq(Trees) /\ Len(<<>>) = 0
    OBVIOUS
  <2> QED
    BY <2>1, <2>2, Zenon
<1>2. signer' = 0 /\ disconnecter' = 0 /\ polling' = TRUE /\ boot' = "loading"
  BY DEF WalletRestart, Undefined
<1>3. Scalars'
  BY DEF WalletRestart, Scalars, Accounts
<1>4. Forest' /\ Owners' /\ MountsBounded'
  BY <1>1, <1>2 DEF Forest, Owners, MountsBounded, Remounter
<1> QED
  BY <1>3, <1>4, WalletTypeParts

LEMMA NextTypes == TypeInv /\ [Next]_vars => TypeInv'
<1> SUFFICES ASSUME TypeInv, [Next]_vars PROVE TypeInv'
  OBVIOUS
<1>1. CASE DrawHeader
  BY <1>1, WalletTypes, ThemeTypes DEF DrawHeader, TypeInv, TypeOK
<1>2. CASE WalletStep
  BY <1>2, WalletTypes, ThemeTypes DEF WalletStep, TypeInv, TypeOK
<1>3. CASE ThemeStep
  BY <1>3, WalletTypes, ThemeTypes DEF ThemeStep, TypeInv, TypeOK
<1>4. CASE Reload
  BY <1>4, RestartTypes, ThemeTypes DEF Reload, TypeInv, TypeOK
<1>5. CASE UNCHANGED vars
  BY <1>5, WalletTypes, ThemeTypes DEF vars, TypeInv, TypeOK
<1> QED
  BY <1>1, <1>2, <1>3, <1>4, <1>5 DEF Next

-----------------------------------------------------------------------------
(* The theme. *)

ThemeInv ==
  /\ label \in {"none", theme}
  /\ chosen # "none" => ~blocked /\ saved = chosen /\ theme = chosen

LEMMA NextThemes ==
  ASSUME TypeOK, ThemeInv, [Next]_vars
  PROVE  ThemeInv'
<1>1. ThemeTypeOK
  BY DEF TypeOK
<1>2. CASE Toggle
  BY <1>2 DEF ThemeInv, Toggle
<1>3. CASE LoadTheme
  <2>1. chosen # "none" => InitialTheme = chosen
    BY <1>1 DEF ThemeTypeOK, ThemeInv, InitialTheme
  <2> QED
    BY <1>3, <2>1 DEF ThemeInv, LoadTheme
<1>4. CASE ShowToggle \/ UNCHANGED themeVars
  BY <1>4 DEF ThemeInv, ShowToggle, themeVars
<1> QED
  BY <1>2, <1>3, <1>4 DEF Next, DrawHeader, WalletStep, ThemeStep, Reload, vars

-----------------------------------------------------------------------------
(* The wallet. *)

Nodes == 1 .. Len(trees)

(* Nothing is mounted before the script has run. *)
ScriptFirst == ~script => Len(trees) = 0

(* A tree that has been rendered has left its disconnecter on window. *)
RenderedOwns ==
  \A t \in Nodes :
    trees[t].due \/ trees[t].endpoint # "unrendered" => disconnecter \in Nodes

(* A tree still shows the key the page believes in, or has news. *)
ShownOrNews ==
  bridge # None => \E t \in Nodes : trees[t].drawn = bridge \/ trees[t].due

HeaderInv ==
  /\ TypeInv
  /\ header \in {Absent, bridge}
  /\ bridge # None => disconnecter \in Nodes
  /\ ScriptFirst
  /\ RenderedOwns
  /\ ShownOrNews
  /\ boot = "ready" => rpc
  /\ ShopEndpoint

LEMMA InitHeader == Init => HeaderInv
<1> SUFFICES ASSUME Init PROVE HeaderInv
  OBVIOUS
<1>1. trees = <<>> /\ bridge = None /\ header = Absent /\ boot = "loading"
  BY DEF Init, WalletInit
<1>2. Len(trees) = 0
  BY <1>1
<1>3. Nodes = {}
  BY <1>2 DEF Nodes
<1> QED
  BY <1>1, <1>2, <1>3, InitTypes DEF HeaderInv, ScriptFirst, RenderedOwns, ShownOrNews, ShopEndpoint

(* A mount, by the poll or by the catalog. *)
LEMMA MountHeader ==
  ASSUME HeaderInv, TypeInv', script, script' = script, trees' = Mounted,
         bridge' = bridge, disconnecter' = disconnecter, header' \in {header, bridge},
         boot' = "ready" => rpc'
  PROVE  HeaderInv'
<1>1. trees \in Seq(Trees) /\ Len(trees) \in Nat
  BY DEF HeaderInv, TypeInv, TypeOK, WalletTypeOK
<1>2. /\ Len(trees') = Len(trees) + 1
      /\ \A t \in Nodes : trees'[t] = trees[t]
      /\ trees'[Len(trees')].endpoint = "unrendered"
      /\ ~trees'[Len(trees')].due
  BY <1>1, MountedType DEF Nodes
<1>3. /\ Nodes \subseteq Nodes'
      /\ \A t \in Nodes' : t \in Nodes \/ t = Len(trees')
  BY <1>1, <1>2 DEF Nodes
<1>4. RenderedOwns'
  BY <1>2, <1>3 DEF HeaderInv, RenderedOwns
<1>5. ShownOrNews'
  BY <1>2, <1>3 DEF HeaderInv, ShownOrNews
<1>6. ShopEndpoint'
  BY <1>2 DEF ShopEndpoint
<1> QED
  BY <1>3, <1>4, <1>5, <1>6 DEF HeaderInv, ScriptFirst

LEMMA RenderHeader ==
  ASSUME HeaderInv, TypeInv', NEW t \in Nodes, Render(t)
  PROVE  HeaderInv'
<1>0. WalletTypeOK /\ Len(trees) \in Nat /\ t \in 1 .. Len(trees)
  BY DEF HeaderInv, TypeInv, TypeOK, WalletTypeOK, Nodes
<1>1. /\ Len(trees') = Len(trees)
      /\ \A u \in Nodes \ {t} : trees'[u] = trees[u]
      /\ trees'[t].drawn = trees[t].key
      /\ trees'[t].endpoint
           = IF trees[t].endpoint # "unrendered" THEN trees[t].endpoint
             ELSE IF rpc THEN "shop" ELSE "default"
      /\ trees[t].drawn # trees[t].key => trees'[t].due
  BY <1>0, RenderTree DEF Nodes
<1>2. /\ script' = script /\ boot' = boot /\ rpc' = rpc /\ bridge' = bridge
      /\ header' = header /\ disconnecter' = t /\ ~trees[t].due
  BY DEF Render
<1>3. Nodes' = Nodes
  BY <1>1 DEF Nodes
<1>4. RenderedOwns'
  BY <1>2, <1>3 DEF RenderedOwns
<1>5. ShownOrNews'
  <2> SUFFICES ASSUME bridge # None
               PROVE  \E u \in Nodes : trees'[u].drawn = bridge \/ trees'[u].due
    BY <1>2, <1>3 DEF ShownOrNews
  <2>1. PICK u \in Nodes : trees[u].drawn = bridge \/ trees[u].due
    BY DEF HeaderInv, ShownOrNews
  <2> QED
    BY <1>1, <1>2, <2>1
<1>6. ShopEndpoint'
  <2> SUFFICES ASSUME boot = "ready", trees' # <<>>
               PROVE  trees'[Len(trees)].endpoint \in {"unrendered", "shop"}
    BY <1>1, <1>2 DEF ShopEndpoint
  <2>1. trees # <<>> /\ Len(trees) \in Nodes
    BY <1>0 DEF Nodes
  <2>2. trees[Len(trees)].endpoint \in {"unrendered", "shop"} /\ rpc
    BY <2>1 DEF HeaderInv, ShopEndpoint
  <2> QED
    BY <1>1, <2>1, <2>2
<1> QED
  BY <1>1, <1>2, <1>3, <1>4, <1>5, <1>6 DEF HeaderInv, ScriptFirst

(* A tree tells the page its key, or gets another one. *)
LEMMA TellHeader ==
  ASSUME HeaderInv, TypeInv', NEW t \in Nodes, Dispatch(t) \/ KeyChanges(t)
  PROVE  HeaderInv'
<1>0. WalletTypeOK /\ Len(trees) \in Nat /\ t \in 1 .. Len(trees)
  BY DEF HeaderInv, TypeInv, TypeOK, WalletTypeOK, Nodes
<1>1. /\ Len(trees') = Len(trees)
      /\ \A u \in Nodes \ {t} : trees'[u] = trees[u]
      /\ trees'[t].drawn = trees[t].drawn
      /\ trees'[t].endpoint = trees[t].endpoint
      /\ \/ ~trees'[t].due /\ bridge' = trees[t].drawn /\ trees[t].due
         \/ trees'[t].due = trees[t].due /\ bridge' = bridge
  <2>1. CASE Dispatch(t)
    BY <1>0, <2>1, DispatchTree DEF Nodes, Dispatch
  <2>2. CASE KeyChanges(t)
    <3>1. bridge' = bridge
      BY <2>2 DEF KeyChanges
    <3> QED
      BY <1>0, <2>2, <3>1, KeyChangesTree DEF Nodes
  <2> QED
    BY <2>1, <2>2
<1>2. /\ script' = script /\ boot' = boot /\ rpc' = rpc
      /\ header' \in {Absent, bridge'} /\ disconnecter' = disconnecter
  BY DEF Dispatch, KeyChanges, Tell, HeaderInv
<1>3. Nodes' = Nodes
  BY <1>1 DEF Nodes
<1>4. RenderedOwns'
  BY <1>1, <1>2, <1>3 DEF HeaderInv, RenderedOwns
<1>5. ShownOrNews'
  <2> SUFFICES ASSUME bridge' # None
               PROVE  \E u \in Nodes : trees'[u].drawn = bridge' \/ trees'[u].due
    BY <1>3 DEF ShownOrNews
  <2>1. CASE bridge' = trees[t].drawn
    BY <1>1, <2>1
  <2>2. CASE trees'[t].due = trees[t].due /\ bridge' = bridge
    <3>1. PICK u \in Nodes : trees[u].drawn = bridge \/ trees[u].due
      BY <2>2 DEF HeaderInv, ShownOrNews
    <3> QED
      BY <1>1, <2>2, <3>1
  <2> QED
    BY <1>1, <2>1, <2>2
<1>6. ShopEndpoint'
  <2> SUFFICES ASSUME boot = "ready", trees' # <<>>
               PROVE  trees'[Len(trees)].endpoint \in {"unrendered", "shop"}
    BY <1>1, <1>2 DEF ShopEndpoint
  <2>1. trees # <<>> /\ Len(trees) \in Nodes
    BY <1>0 DEF Nodes
  <2>2. trees[Len(trees)].endpoint \in {"unrendered", "shop"}
    BY <2>1 DEF HeaderInv, ShopEndpoint
  <2> QED
    BY <1>1, <2>1, <2>2
<1>7. bridge' # None => disconnecter' \in Nodes'
  BY <1>1, <1>2, <1>3 DEF HeaderInv, RenderedOwns
<1> QED
  BY <1>1, <1>2, <1>4, <1>5, <1>6, <1>7 DEF HeaderInv, ScriptFirst

(* Steps that leave the trees alone, and may forget the key. *)
LEMMA KeptHeader ==
  ASSUME HeaderInv, TypeInv', trees' = trees, script => script',
         disconnecter' = disconnecter \/ ~script,
         \/ bridge' = bridge /\ header' \in {header, bridge}
         \/ bridge' = None /\ header' \in {Absent, None},
         boot' = boot \/ boot' = "failed" \/ ~script, boot' = "ready" => rpc'
  PROVE  HeaderInv'
<1>0. ~script => Nodes = {} /\ Len(trees) = 0
  BY DEF HeaderInv, ScriptFirst, Nodes
<1>1. Nodes' = Nodes
  BY DEF Nodes
<1>2. ~script => trees = <<>>
  BY <1>0 DEF HeaderInv, TypeInv, TypeOK, WalletTypeOK
<1>3. RenderedOwns'
  BY <1>0, <1>1 DEF HeaderInv, RenderedOwns
<1>4. ShownOrNews'
  BY <1>1 DEF HeaderInv, ShownOrNews
<1>5. ShopEndpoint'
  BY <1>2 DEF HeaderInv, ShopEndpoint
<1>6. bridge' # None => disconnecter' \in Nodes'
  BY <1>0, <1>1 DEF HeaderInv
<1>7. ScriptFirst'
  BY DEF HeaderInv, ScriptFirst
<1> QED
  BY <1>3, <1>4, <1>5, <1>6, <1>7 DEF HeaderInv

LEMMA WalletStepHeader ==
  ASSUME HeaderInv, TypeInv', WalletNext \/ Boot \/ UNCHANGED walletVars
  PROVE  HeaderInv'
<1>0. boot = "ready" => rpc
  BY DEF HeaderInv
<1>1. CASE \E t \in 1 .. Len(trees) : Render(t) \/ Dispatch(t) \/ KeyChanges(t)
  BY <1>1, RenderHeader, TellHeader DEF Nodes
<1>2. CASE Poll
  BY <1>0, <1>2, MountHeader DEF Poll
<1>3. CASE Boot
  <2>1. CASE script
    BY <1>3, <2>1, MountHeader DEF Boot
  <2>2. CASE ~script
    BY <1>3, <2>2, KeptHeader DEF Boot
  <2> QED
    BY <2>1, <2>2
<1>4. CASE RunScript
  BY <1>0, <1>4, KeptHeader DEF RunScript
<1>5. CASE BootFails \/ ClickDisconnect \/ UNCHANGED walletVars
  <2>1. /\ trees' = trees /\ script' = script /\ disconnecter' = disconnecter
        /\ \/ bridge' = bridge /\ header' \in {header, bridge}
           \/ bridge' = None /\ header' \in {Absent, None}
        /\ boot' = boot \/ boot' = "failed"
    BY <1>5 DEF BootFails, ClickDisconnect, Tell, walletVars
  <2>2. boot' = "ready" => boot = "ready" /\ rpc' = rpc
    BY <1>5 DEF BootFails, ClickDisconnect, walletVars
  <2>3. boot' = "ready" => rpc'
    BY <1>0, <2>2
  <2> QED
    BY <2>1, <2>3, KeptHeader
<1> QED
  BY <1>1, <1>2, <1>3, <1>4, <1>5 DEF WalletNext

LEMMA RestartHeader == WalletRestart /\ TypeInv' => HeaderInv'
<1> SUFFICES ASSUME WalletRestart, TypeInv' PROVE HeaderInv'
  OBVIOUS
<1>1. /\ trees' = <<>> /\ bridge' = None /\ header' = Absent /\ boot' = "loading"
      /\ script' = FALSE
  BY DEF WalletRestart
<1>2. Len(trees') = 0
  BY <1>1
<1>3. Nodes' = {}
  BY <1>2 DEF Nodes
<1> QED
  BY <1>1, <1>2, <1>3 DEF HeaderInv, ScriptFirst, RenderedOwns, ShownOrNews, ShopEndpoint

LEMMA NextHeader == HeaderInv /\ [Next]_vars => HeaderInv'
<1> SUFFICES ASSUME HeaderInv, [Next]_vars PROVE HeaderInv'
  OBVIOUS
<1>1. TypeInv'
  BY NextTypes DEF HeaderInv
<1>2. CASE Reload
  BY <1>1, <1>2, RestartHeader DEF Reload
<1>3. CASE ~Reload
  BY <1>1, <1>3, WalletStepHeader DEF Next, DrawHeader, WalletStep, ThemeStep, vars
<1> QED
  BY <1>2, <1>3

LEMMA HeaderInvariant == Spec => []HeaderInv
  BY InitHeader, NextHeader, PTL DEF Spec

LEMMA ThemeInvariant == Spec => []ThemeInv
<1>1. Init => ThemeInv
  BY DEF Init, ThemeInit, ThemeInv
<1>2. TypeOK /\ ThemeInv /\ [Next]_vars => ThemeInv'
  BY NextThemes
<1>3. HeaderInv => TypeOK
  BY DEF HeaderInv, TypeInv
<1> QED
  BY <1>1, <1>2, <1>3, HeaderInvariant, PTL DEF Spec

-----------------------------------------------------------------------------
(* Wallet and theme stay well typed, and the page never mounts a third tree,
   though nothing ever unmounts one (App.ts 10-32, main.js 67-72, 140-147). *)
THEOREM HeaderTyped == Spec => []TypeOK
<1>1. HeaderInv => TypeOK
  BY DEF HeaderInv, TypeInv
<1> QED
  BY <1>1, HeaderInvariant, PTL

(* The header shows what the page believes, in both trees' lives and across
   reloads (WalletHeader.ts 29-55, 91-127, main.js 81-138). *)
THEOREM HeaderIsTrue == Spec => []HeaderTrue
<1>1. HeaderInv /\ ThemeInv => HeaderTrue
  BY DEF HeaderInv, ThemeInv, HeaderTrue, Nodes
<1> QED
  BY <1>1, HeaderInvariant, ThemeInvariant, PTL

(* A key the page believes in is connected once React is done, whichever tree
   it came from (main.js 89-105, 140-147). *)
THEOREM BelievedIsLive == Spec => []BelievedKeyIsLive
<1>1. HeaderInv => BelievedKeyIsLive
  BY DEF HeaderInv, ShownOrNews, Nodes, BelievedKeyIsLive, Quiet
<1> QED
  BY <1>1, HeaderInvariant, PTL

(* The tree in the page uses the shop's RPC endpoint, in whatever order script
   and catalog come (App.ts 10-32, main.js 33-72). *)
THEOREM EndpointIsShops == Spec => []ShopEndpoint
<1>1. HeaderInv => ShopEndpoint
  BY DEF HeaderInv
<1> QED
  BY <1>1, HeaderInvariant, PTL

(* Reloads keep the theme that was chosen, if storage took it, and the first
   paint has it (theme.ts 18-44). *)
THEOREM ChoiceKept == Spec => []ChoiceSurvives
<1>1. TypeOK /\ ThemeInv => ChoiceSurvives
  BY DEF TypeOK, ThemeTypeOK, Modes, ThemeInv, ChoiceSurvives, InlineTheme
<1>2. HeaderInv => TypeOK
  BY DEF HeaderInv, TypeInv
<1> QED
  BY <1>1, <1>2, HeaderInvariant, ThemeInvariant, PTL
=============================================================================
