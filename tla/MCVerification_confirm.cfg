SPECIFICATION Spec
CONSTANT Flows = {f1}
INVARIANT EmojiCanBeConfirmed
CHECK_DEADLOCK FALSE
