----------------------------- MODULE ServoAngles -----------------------------
(***************************************************************************)
(* Angles in tenths of a degree, positions of the servo, and the two       *)
(* seven-bit bytes that carry a position on the ICS bus (lib.rs 309-324,   *)
(* krs_servo.rs 206-219).  The code computes in f32; a position per degree *)
(* of 29.62963 is 800/27 there, and the integer formulas below are its     *)
(* value for each of the 65536 arguments of either conversion.             *)
(***************************************************************************)
EXTENDS Integers

SERVO_MIN_POS == 3500
SERVO_CENTER_POS == 7500
SERVO_MAX_POS == 11500

\* A cast to an integer drops the fraction, towards zero.
truncate(n, d) == IF n >= 0 THEN n \div d ELSE -((-n) \div d)

angle_x10_to_position(angle_x10) ==
  LET position == truncate(27 * SERVO_CENTER_POS + 80 * angle_x10, 27)
  IN  IF position < SERVO_MIN_POS THEN SERVO_MIN_POS
      ELSE IF position > SERVO_MAX_POS THEN SERVO_MAX_POS
      ELSE position

\* A slip: the centre is not taken off.
position_to_angle_x10_from_zero(position) == truncate(27 * position, 80)

position_to_angle_x10(position) == truncate(27 * (position - SERVO_CENTER_POS), 80)

position_bytes(position) == <<(position \div 128) % 128, position % 128>>
bytes_position(high, low) == ((high % 128) * 128) + (low % 128)
=============================================================================
