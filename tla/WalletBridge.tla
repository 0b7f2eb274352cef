---------------------------- MODULE WalletBridge ----------------------------
(***************************************************************************)
(* How the storefront gets a wallet.  wallet.js, a deferred script, offers *)
(* MountWalletAdapter; App.ts polls for it, and asks for a second mount    *)
(* once the catalog has named an RPC endpoint.  A mount is a React tree    *)
(* that is not unmounted when its container is emptied: the first tree     *)
(* lives on, unseen, beside the second.  A render of a tree installs its   *)
(* signer and its disconnecter on window, where one set serves all trees;  *)
(* after a render in which the key is new, an effect tells the page.       *)
(*                                                                         *)
(* External: React (renders and effects), the wallet adapter (a key that   *)
(* may change or go at any time; disconnect() may also fail).              *)
(***************************************************************************)
EXTENDS Integers, Sequences

CONSTANTS
  Keys,      \* public keys of the reader's wallets
  None,      \* no key
  Absent     \* no header yet

ASSUME WalletBridgeAssumption == None \notin Keys /\ Absent \notin Keys /\ None # Absent

VARIABLES
  script,        \* wallet.js has run
  polling,       \* tryMount waits for its next turn
  boot,          \* bootstrapApp: "loading", "ready" or "failed"
  rpc,           \* __STOREFRONT_RPC__ is set
  trees,         \* the React trees, in the order of their mounts
  signer,        \* tree whose callback MiracleTxSigner is
  disconnecter,  \* tree whose callback MiracleWalletDisconnecter is
  bridge,        \* state.pubkey of WalletHeader.ts
  header         \* the key the header shows, None for "Connect wallet"

walletVars == <<script, polling, boot, rpc, trees, signer, disconnecter, bridge, header>>

Accounts == Keys \union {None}

(* Values of signer and disconnecter that are no tree: undefined, and the
   DisconnectWallet that wallet.js puts there when it runs. *)
Undefined == 0
Remounter == -1

Trees ==
  [endpoint : {"unrendered", "default", "shop"},
   key      : Accounts,      \* publicKey of its adapter
   drawn    : Accounts,      \* publicKey in its last render
   due      : BOOLEAN]       \* its Dispatcher effect is still to run

WalletTypeOK ==
  /\ script \in BOOLEAN
  /\ polling \in BOOLEAN
  /\ boot \in {"loading", "ready", "failed"}
  /\ rpc \in BOOLEAN
  /\ trees \in Seq(Trees) /\ Len(trees) <= 2
  /\ signer \in 0 .. Len(trees)
  /\ disconnecter \in Remounter .. Len(trees)
  /\ bridge \in Accounts
  /\ header \in Accounts \union {Absent}

(* bootstrapApp has begun; the next turn may be wallet.js's. *)
WalletInit ==
  /\ script = FALSE
  /\ polling = TRUE
  /\ boot = "loading"
  /\ rpc = FALSE
  /\ trees = <<>>
  /\ signer = Undefined
  /\ disconnecter = Undefined
  /\ bridge = None
  /\ header = Absent

WalletRestart ==
  /\ script' = FALSE
  /\ polling' = TRUE
  /\ boot' = "loading"
  /\ rpc' = FALSE
  /\ trees' = <<>>
  /\ signer' = Undefined
  /\ disconnecter' = Undefined
  /\ bridge' = None
  /\ header' = Absent

Mounted == Append(trees, [endpoint |-> "unrendered", key |-> None,
                          drawn |-> None, due |-> FALSE])

RunScript ==
  /\ ~script
  /\ script' = TRUE
  /\ disconnecter' = Remounter
  /\ UNCHANGED <<polling, boot, rpc, trees, signer, bridge, header>>

(* A faulty tryMount, which does not come back. *)
PollOnce ==
  /\ polling
  /\ polling' = FALSE
  /\ trees' = IF script THEN Mounted ELSE trees
  /\ UNCHANGED <<script, boot, rpc, signer, disconnecter, bridge, header>>

(* tryMount finds the script; until then it waits another 100 ms. *)
Poll ==
  /\ polling
  /\ script
  /\ polling' = FALSE
  /\ trees' = Mounted
  /\ UNCHANGED <<script, boot, rpc, signer, disconnecter, bridge, header>>

(* A faulty bootstrap: no second mount. *)
BootWithoutRemount ==
  /\ boot = "loading"
  /\ boot' = "ready"
  /\ rpc' = TRUE
  /\ header' = bridge
  /\ UNCHANGED <<script, polling, trees, signer, disconnecter, bridge>>

(* A faulty header, which waits for the next event before it shows a key. *)
BootUnsynced ==
  /\ boot = "loading"
  /\ boot' = "ready"
  /\ rpc' = TRUE
  /\ trees' = IF script THEN Mounted ELSE trees
  /\ header' = None
  /\ UNCHANGED <<script, polling, signer, disconnecter, bridge>>

(* The catalog is there: the endpoint is set, the wallet mounted again if its
   script has run, and the header drawn, in one turn of the event loop. *)
Boot ==
  /\ boot = "loading"
  /\ boot' = "ready"
  /\ rpc' = TRUE
  /\ trees' = IF script THEN Mounted ELSE trees
  /\ header' = bridge
  /\ UNCHANGED <<script, polling, signer, disconnecter, bridge>>

(* The catalog does not come, or names an endpoint that is set and that the
   RPC client then refuses: in both cases a banner, and no header. *)
BootFails ==
  /\ boot = "loading"
  /\ boot' = "failed"
  /\ rpc' \in {rpc, TRUE}
  /\ UNCHANGED <<script, polling, trees, signer, disconnecter, bridge, header>>

(* A tree rendered with the key of its adapter; its endpoint is read in the
   first render. *)
Rendered(tree) ==
  [tree EXCEPT !.endpoint = IF @ # "unrendered" THEN @ ELSE IF rpc THEN "shop" ELSE "default",
               !.drawn = tree.key,
               !.due = tree.endpoint = "unrendered" \/ tree.drawn # tree.key]

(* A render, the first one, for a new key, or for anything else in the
   adapter's context. *)
Render(t) ==
  /\ ~trees[t].due
  /\ trees' = [trees EXCEPT ![t] = Rendered(@)]
  /\ signer' = t
  /\ disconnecter' = t
  /\ UNCHANGED <<script, polling, boot, rpc, bridge, header>>

(* The page has a new key: state is set, and emit redraws the header. *)
Tell(key) ==
  /\ bridge' = key
  /\ header' = IF header = Absent THEN Absent ELSE key

(* A faulty Dispatcher, silent when the key is gone. *)
DispatchConnections(t) ==
  /\ trees[t].due
  /\ trees' = [trees EXCEPT ![t].due = FALSE]
  /\ IF trees[t].drawn = None THEN UNCHANGED <<bridge, header>> ELSE Tell(trees[t].drawn)
  /\ UNCHANGED <<script, polling, boot, rpc, signer, disconnecter>>

(* The effect of Dispatcher: miracle-pubkey. *)
Dispatch(t) ==
  /\ trees[t].due
  /\ trees' = [trees EXCEPT ![t].due = FALSE]
  /\ Tell(trees[t].drawn)
  /\ UNCHANGED <<script, polling, boot, rpc, signer, disconnecter>>

(* The reader connects, changes accounts or disconnects; autoConnect. *)
KeyChanges(t) ==
  /\ trees[t].endpoint # "unrendered"
  /\ \E k \in Accounts \ {trees[t].key} : trees' = [trees EXCEPT ![t].key = k]
  /\ UNCHANGED <<script, polling, boot, rpc, signer, disconnecter, bridge, header>>

(* The header's button over a key: the page forgets it at once; the adapter
   is asked to disconnect, and may or may not.  (Without a key the button
   only shows the wallet's dialog.) *)
ClickDisconnect ==
  /\ header \notin {Absent, None}
  /\ bridge # None
  /\ Tell(None)
  /\ UNCHANGED <<script, polling, boot, rpc, trees, signer, disconnecter>>

WalletNext ==
  \/ RunScript \/ Poll \/ BootFails \/ ClickDisconnect
  \/ \E t \in 1 .. Len(trees) : Render(t) \/ Dispatch(t) \/ KeyChanges(t)

-----------------------------------------------------------------------------
(* React has nothing left to do. *)
Quiet ==
  \A t \in 1 .. Len(trees) :
    /\ trees[t].endpoint # "unrendered"
    /\ trees[t].drawn = trees[t].key
    /\ ~trees[t].due

(* Once the catalog is there the wallet in the page works on the shop's RPC
   endpoint, whether its script came before, during or after the catalog
   (App.ts 10-32, main.js 33-72, 140-147). *)
ShopEndpoint ==
  boot = "ready" /\ trees # <<>> =>
    trees[Len(trees)].endpoint \in {"unrendered", "shop"}

(* When nothing is under way, a key the page believes in is connected, with
   both trees alive too (main.js 89-105). *)
BelievedKeyIsLive ==
  Quiet /\ bridge # None => \E t \in 1 .. Len(trees) : trees[t].key = bridge

(* If wallet.js ever runs, there is a signer in the end: the poll does not
   give up, and does not depend on the catalog (App.ts 10-19). *)
SignerInstalled == script ~> (signer # Undefined \/ ~script)
=============================================================================
