---------------------------- MODULE MCIvrSession ----------------------------
(***************************************************************************)
(* TLC instances of IvrSession: the menu of docs/examples.md ("IVR         *)
(* Configuration Example"), and one that uses every field and post_action. *)
(***************************************************************************)
EXTENDS IvrSession, TLC

Do(cmd) == [kind |-> "post", to |-> NoMenu, post |-> [cmd |-> cmd, n |-> 1, m |-> NoMenu]]
GoTo(menu) == [kind |-> "post", to |-> NoMenu, post |-> [cmd |-> "goto", n |-> 1, m |-> menu]]
SubMenu(menu) == [kind |-> "menu", to |-> menu, post |-> [cmd |-> "wait", n |-> 1, m |-> NoMenu]]
Assist == [kind |-> "assist", to |-> NoMenu, post |-> [cmd |-> "wait", n |-> 1, m |-> NoMenu]]

\* A message and nothing else, with its post_action.
Says(target) ==
    [prompt |-> TRUE, waits |-> TRUE, pin |-> FALSE, assist |-> FALSE, choices |-> <<>>,
     onInvalid |-> NoTarget, onTimeout |-> NoTarget, post |-> target.post]

Asks(choices) ==
    [prompt |-> TRUE, waits |-> TRUE, pin |-> FALSE, assist |-> FALSE, choices |-> choices,
     onInvalid |-> NoTarget, onTimeout |-> NoTarget, post |-> Do("hangup").post]

DocMenus == {"root", "light", "invalid"}

DocScript ==
    [m \in DocMenus |->
       CASE m = "root" ->
              [Asks((<<"1">> :> SubMenu("light")) @@ (<<"2">> :> Assist))
                 EXCEPT !.onInvalid = SubMenu("invalid"), !.onTimeout = Do("hangup")]
         [] m = "light" -> Says(Do("hangup"))
         [] m = "invalid" -> Says(Do("repeat"))]

DocDigits == {"1", "2", "3"}

FullMenus == {"root", "code", "open", "note", "wrong", "silent", "agent"}

FullScript ==
    [m \in FullMenus |->
       CASE m = "root" ->
              [Asks((<<"1">> :> SubMenu("code")) @@ (<<"2">> :> SubMenu("silent")))
                 EXCEPT !.waits = FALSE, !.onInvalid = SubMenu("wrong"),
                        !.post = Do("repeat").post]
         [] m = "code" ->
              [Asks((<<"1", "2">> :> SubMenu("open")) @@ (<<"2", "1">> :> SubMenu("note")))
                 EXCEPT !.pin = TRUE, !.onTimeout = Do("nothing")]
         [] m = "open" -> Says(Do("hangup"))
         [] m = "note" -> Says(Do("nothing"))
         [] m = "wrong" -> Says(Do("back"))
         [] m = "silent" ->
              [Asks((<<"1">> :> GoTo("root")) @@ (<<"2">> :> SubMenu("agent"))
                      @@ (<<"#">> :> Do("wait")))
                 EXCEPT !.prompt = FALSE, !.onTimeout = SubMenu("wrong")]
         [] m = "agent" -> [Says(Do("hangup")) EXCEPT !.assist = TRUE]]

FullDigits == {"1", "2", "#"}
=============================================================================
