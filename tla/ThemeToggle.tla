---------------------------- MODULE ThemeToggle ----------------------------
(***************************************************************************)
(* The theme of the storefront: the data-theme attribute of the document,  *)
(* the value in local storage, and the label of the button in the header.  *)
(* Storage may be blocked or full, and may hold something else under the   *)
(* key.                                                                    *)
(***************************************************************************)

CONSTANT
  Stored     \* values local storage may hold, besides the two modes

VARIABLES
  theme,     \* data-theme
  saved,     \* localStorage[STORAGE_KEY]
  blocked,   \* local storage throws
  label,     \* mode the button was labelled for, or "none" without a header
  chosen     \* the mode the reader chose last, if storage took it (history)

themeVars == <<theme, saved, blocked, label, chosen>>

Modes == {"dark", "light"}

ThemeTypeOK ==
  /\ theme \in Modes
  /\ saved \in Modes \union Stored
  /\ blocked \in BOOLEAN
  /\ label \in Modes \union {"none"}
  /\ chosen \in Modes \union {"none"}

(* The script in index.html, before anything is drawn. *)
InlineTheme == IF ~blocked /\ saved = "light" THEN "light" ELSE "dark"

(* A faulty initTheme: the default, whatever was stored. *)
DefaultTheme == "dark"

(* initTheme: the stored mode if it is one, else dark. *)
InitialTheme == IF ~blocked /\ saved \in Modes THEN saved ELSE "dark"

ThemeInit ==
  /\ saved \in Modes \union Stored
  /\ blocked \in BOOLEAN
  /\ theme = InitialTheme
  /\ label = "none"
  /\ chosen = "none"

(* renderWalletHeader labels the button and subscribes. *)
ShowToggle ==
  /\ label' = theme
  /\ UNCHANGED <<theme, saved, blocked, chosen>>

(* A click: setTheme of the other mode, which calls the listener.  Storage that
   can be read may still refuse the write. *)
Toggle ==
  /\ label # "none"
  /\ theme' = CHOOSE m \in Modes : m # theme
  /\ label' = theme'
  /\ \/ ~blocked /\ saved' = theme' /\ chosen' = theme'
     \/ saved' = saved /\ chosen' = "none"
  /\ UNCHANGED blocked

(* The page is loaded again. *)
LoadTheme ==
  /\ theme' = InitialTheme
  /\ label' = "none"
  /\ UNCHANGED <<saved, blocked, chosen>>

-----------------------------------------------------------------------------
(* If storage took the mode chosen last, the page comes back in it, and
   index.html draws it in that mode at once (theme.ts 18-44,
   index.html 12-19). *)
ChoiceSurvives ==
  chosen # "none" => theme = chosen /\ InlineTheme = theme
=============================================================================
