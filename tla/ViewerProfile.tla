---------------------------- MODULE ViewerProfile ----------------------------
(* Which profile of a manifest a viewer gets: ProfileResolver.cs in the    *)
(* plugin and _resolve_profile in tools/bvf_player.py, each in its own     *)
(* words. A user has an override or None, an age or None (no birthday, or  *)
(* one that cannot be parsed), a sex, and a default or None: the plugin's  *)
(* DefaultProfile setting, or default_profile in the player's user data.   *)
EXTENDS Playback

\* A sex is a word in lower case, or with a capital somewhere.
Sexes == [word : {"female", "male", "unset"}, lower : BOOLEAN]
Female == [word |-> "female", lower |-> TRUE]
Lower(sex) == [word |-> sex.word, lower |-> TRUE]

\* The order in which both look for something to fall back to.
Candidates == <<"adult", "teen_m", "teen_f", "teen", "child">>

\* Bug variant of ResolveFromAgeSex: a thirteenth birthday comes too late.
ResolveFromAgeSexLate(age, sex) ==
    IF age <= 13 THEN "child"
    ELSE IF age < 18 THEN IF sex = Female THEN "teen_f" ELSE "teen_m" ELSE "adult"

ResolveFromAgeSex(age, sex) ==
    IF age < 13 THEN "child"
    ELSE IF age < 18 THEN IF sex = Female THEN "teen_f" ELSE "teen_m" ELSE "adult"

\* SelectAvailableProfile; available is the manifest's profiles in order.
SelectAvailableProfile(available, preferred) ==
    LET names == Range(available)
        fallback == Where(Candidates, names)
    IN  IF preferred \in names THEN preferred
        ELSE IF preferred \in {"teen_m", "teen_f"} /\ "teen" \in names THEN "teen"
        ELSE IF fallback # <<>> THEN Head(fallback)
        ELSE IF available # <<>> THEN Head(available) ELSE "adult"

\* ProfileResolver.ResolveProfile. It never asks for the default.
ServerResolveProfile(user, available) ==
    SelectAvailableProfile(available,
        IF user.override # None THEN user.override
        ELSE IF user.age # None THEN ResolveFromAgeSex(user.age, user.sex) ELSE "adult")

\* BVFPlayer._profile_from_user_data.
PlayerProfileFromUser(user) ==
    CASE user.override # None -> user.override
      [] user.override = None /\ user.age = None ->
            IF user.default # None THEN user.default ELSE "adult"
      [] OTHER -> IF user.age < 13 THEN "child"
                  ELSE IF user.age >= 18 THEN "adult"
                  ELSE IF Lower(user.sex) = Female THEN "teen_f" ELSE "teen_m"

\* BVFPlayer._select_available_profile, after its own loop over candidates.
PlayerResolveProfile(user, available) ==
    LET preferred == PlayerProfileFromUser(user)
        found(c) == \E i \in DOMAIN available : available[i] = c
        hits == {i \in DOMAIN Candidates : found(Candidates[i])}
    IN  CASE found(preferred) -> preferred
          [] ~found(preferred) /\ preferred \in {"teen_m", "teen_f"} /\ found("teen") -> "teen"
          [] OTHER -> IF hits # {} THEN Candidates[CHOOSE i \in hits : \A j \in hits : i <= j]
                      ELSE IF available = <<>> THEN preferred ELSE available[1]

=============================================================================
