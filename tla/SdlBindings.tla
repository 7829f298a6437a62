---------------------------- MODULE SdlBindings ----------------------------
(***************************************************************************)
(* sdl_bindings.c: input devices and audio streams.  Every guest has       *)
(* tables of its own, SDL is one for the process: opening a joystick or    *)
(* gamepad that is open gives the same object with one more reference, for *)
(* the same guest or another, and closing gives one up.  Two guests, A and *)
(* B.  Audio devices are named by SDL's own numbers, which are not handles.*)
(***************************************************************************)
EXTENDS HostObjects

CONSTANT Pads          \* joysticks plugged in, each also a gamepad

VARIABLE pad           \* of each object: its class and the device behind it

SdlKinds == <<"joystickA", "joystickB", "gamepadA", "streamA">>
SdlClass(k) == CASE k \in {"joystickA", "joystickB"} -> "joystick"
                 [] k = "gamepadA" -> "gamepad" [] OTHER -> "stream"

JoystickCalls == {
    Uses({"joystick_connected", "get_num_joystick_axes", "get_num_joystick_buttons",
          "get_num_joystick_hats", "get_joystick_axis", "get_joystick_button", "get_joystick_hat",
          "rumble_joystick", "set_joystick_led", "get_joystick_name", "get_joystick_id"}, <<k>>)
    : k \in {"joystickA", "joystickB"}}

GamepadCalls == {
    Uses({"gamepad_connected", "get_gamepad_name", "get_gamepad_type", "get_gamepad_axis",
          "get_gamepad_button", "rumble_gamepad", "rumble_gamepad_triggers", "set_gamepad_led",
          "get_gamepad_id", "gamepad_has_axis", "gamepad_has_button", "get_gamepad_button_label",
          "get_gamepad_player_index", "set_gamepad_player_index"}, <<"gamepadA">>)}

StreamCalls == {
    Uses({"bind_audio_stream", "unbind_audio_stream", "put_audio_stream_data", "get_audio_stream_data",
          "get_audio_stream_available", "get_audio_stream_queued", "flush_audio_stream",
          "clear_audio_stream", "set_audio_stream_format", "set_audio_stream_gain",
          "get_audio_stream_gain", "set_audio_stream_freq_ratio", "get_audio_stream_freq_ratio",
          "resume_audio_stream_device", "pause_audio_stream_device"}, <<"streamA">>)}

SdlUse == \E c \in JoystickCalls \cup GamepadCalls \cup StreamCalls : UseCall(c) /\ UNCHANGED pad

\* SDL_OpenJoystick, SDL_OpenGamepad: the object of an open device is shared
OpenObject(class, d) == {o \in 1 .. Len(refs) : refs[o] > 0 /\ pad[o] = [class |-> class, dev |-> d]}
NewPad(k, d) ==
    /\ LET n == Create(Present) IN Become(List(n, k, Newest(n)))
    /\ pad' = Append(pad, [class |-> SdlClass(k), dev |-> d])
OpenPad(k, d) ==
    /\ Spend
    /\ IF OpenObject(SdlClass(k), d) = {} THEN NewPad(k, d)
       ELSE /\ \E o \in OpenObject(SdlClass(k), d) : Become(List(Retain(Present, o), k, o))
            /\ UNCHANGED pad
    /\ UNCHANGED lib

\* create_audio_stream, open_audio_device_stream: always a new object
CreateStream == Spend /\ NewPad("streamA", 0) /\ UNCHANGED lib

\* A mutant: closing returns without removing the handle
ClosedOnly(k, h) == Become(Release(Present, HtGet(tab[k], h)))
Closed(k, h) == Become(Dropped(Present, k, h))

\* close_joystick, close_gamepad, destroy_audio_stream
CloseObject ==
    /\ Spend
    /\ \E k \in DOMAIN tab : \E h \in HtUsed(tab[k]) : Closed(k, h)
    /\ UNCHANGED <<lib, pad>>

SdlParked == pad = <<>>
SdlInit == ObjectsInit("sdl", SdlKinds, DeepCalls) /\ refs = <<>> /\ pad = <<>>

SdlNext == \/ SdlUse \/ CreateStream \/ CloseObject
           \/ \E k \in {"joystickA", "joystickB", "gamepadA"}, d \in Pads : OpenPad(k, d)

SdlSpec == SdlInit /\ [][SdlNext]_<<objVars, pad>>

\* the handles, of any kind, that name the object o in the tables T
NamesOf(T, o) == UNION {{<<k, h>> : h \in {h \in HtUsed(T[k]) : HtGet(T[k], h) = o}} : k \in DOMAIN T}

\* SDL's count of a device or stream is the number of handles that name it, in
\* all guests: no guest can close a joystick another one still reads, and none
\* stays open when the last handle is closed.
PadsAreCounted ==
    lib = "sdl" =>
        /\ misused = {}
        /\ \A o \in 1 .. Len(refs) : refs[o] = Cardinality(NamesOf(tab, o))
=============================================================================
