-------------------------- MODULE StorefrontHeader --------------------------
(***************************************************************************)
(* The header of the storefront: the wallet and the theme, which start     *)
(* together when the page is loaded, and are drawn together when the       *)
(* catalog is there.                                                       *)
(***************************************************************************)
EXTENDS WalletBridge, ThemeToggle

vars == <<walletVars, themeVars>>

TypeOK == WalletTypeOK /\ ThemeTypeOK

Init == WalletInit /\ ThemeInit

(* renderWalletHeader *)
DrawHeader == Boot /\ ShowToggle

WalletStep == WalletNext /\ UNCHANGED themeVars

ThemeStep == Toggle /\ UNCHANGED walletVars

Reload == WalletRestart /\ LoadTheme

Next == DrawHeader \/ WalletStep \/ ThemeStep \/ Reload

Spec == Init /\ [][Next]_vars

(* Timers fire and React renders what it has scheduled. *)
React(t) == t <= Len(trees) /\ trees[t].endpoint = "unrendered" /\ Render(t)

FairSpec ==
  /\ Spec
  /\ WF_vars(Poll /\ UNCHANGED themeVars)
  /\ \A t \in 1 .. 2 : WF_vars(React(t) /\ UNCHANGED themeVars)

-----------------------------------------------------------------------------
(* The header is true: it shows the key the page believes in and offers the
   theme the page is not in, from its first drawing on, and a key it shows is
   disconnected through React: DisconnectWallet, which would mount once more,
   is never called (WalletHeader.ts 29-55, 91-127, main.js 81-87, 116, 138). *)
HeaderTrue ==
  /\ header \in {Absent, bridge}
  /\ label \in {"none", theme}
  /\ bridge # None => disconnecter \in 1 .. Len(trees)
=============================================================================
